---------------------------- MODULE Spec2Model ----------------------------
(***************************************************************************)
(* Model of the aquatic ecosystem simulator (game_logic.Ecosystem and its  *)
(* GameController driver).                                                 *)
(*                                                                         *)
(* Units.  The program computes with floats; the model computes with       *)
(* integers in fixed units chosen so that the arithmetic of the code is    *)
(* exact on the inputs the model draws:                                    *)
(*   - lengths are deci-pixels (Px(1) = 10), so int(x) is x \div 10;       *)
(*   - energies are 1e-5 energy units (En(1) = 100000);                    *)
(*   - delta_time and ages are deciseconds (Sec(1) = 10); the clock's      *)
(*     turn advances by delta_time * 10, i.e. by one per decisecond;       *)
(*   - multipliers and base speeds are hundredths (1.05 is 105), a speed   *)
(*     is base_speed * multiplier in 1e-4 px per frame-unit.               *)
(* A list is a sequence, in the list's order; a reference to an entity is  *)
(* its eid, and None is 0 (eids start at 1).                               *)
(***************************************************************************)
EXTENDS Integers, Sequences, FiniteSets, TLC

Px(n) == 10 * n
En(n) == 100000 * n
Sec(n) == 10 * n

Abs(n) == IF n < 0 THEN 0 - n ELSE n
Sign(n) == IF n < 0 THEN 0 - 1 ELSE IF n > 0 THEN 1 ELSE 0
Min(a, b) == IF a < b THEN a ELSE b
Max(a, b) == IF a > b THEN a ELSE b
\* Division truncating toward zero (the float quotient, cut to the unit).
Quot(a, b) == Sign(a) * Sign(b) * (Abs(a) \div Abs(b))

RECURSIVE SqrtFrom(_, _)
SqrtFrom(n, r) == IF (r + 1) * (r + 1) > n THEN r ELSE SqrtFrom(n, r + 1)
RECURSIVE SqrtBin(_, _, _)
SqrtBin(n, lo, hi) ==
    IF hi - lo <= 1 THEN SqrtFrom(n, lo)
    ELSE LET mid == (lo + hi) \div 2
         IN IF mid * mid <= n THEN SqrtBin(n, mid, hi) ELSE SqrtBin(n, lo, mid)
\* math.hypot, exact when the two points share a coordinate, else floored.
Hypot(dx, dy) ==
    IF dy = 0 THEN Abs(dx)
    ELSE IF dx = 0 THEN Abs(dy)
    ELSE SqrtBin(dx * dx + dy * dy, 0, 20000)

(***************************************************************************)
(* config.py                                                               *)
(***************************************************************************)
SCREEN_WIDTH == 1280
SCREEN_HEIGHT == 720
PANEL_WIDTH == 280
GAME_AREA_WIDTH == SCREEN_WIDTH - PANEL_WIDTH
TURN_DURATION_MS == 1000
DAY_CYCLE_TURNS == 32
DAYS_PER_SEASON == 6
SEASONS_ORDER == <<"Primavera", "Verano", "Otono", "Invierno">>
POPULATION_LIMITS ==
    [plantas |-> [min |-> 0, max |-> 100],
     peces |-> [min |-> 0, max |-> 50],
     truchas |-> [min |-> 0, max |-> 30],
     tiburones |-> [min |-> 0, max |-> 15]]
\* SEASONS_CONFIG[season]["modifiers"], in hundredths.
SeasonMovement(season) ==
    CASE season = "Primavera" -> 105
      [] season = "Verano" -> 108
      [] season = "Otono" -> 95
      [] season = "Invierno" -> 82
      [] OTHER -> 100
SeasonConsumption(season) ==
    CASE season = "Primavera" -> 92
      [] season = "Verano" -> 105
      [] season = "Otono" -> 98
      [] season = "Invierno" -> 120
      [] OTHER -> 100
FISH_SCHOOL_RADIUS == 140
FISH_SCHOOL_MIN_NEIGHBORS == 2
FISH_SEPARATION_DISTANCE == 30
TROUT_PACK_RADIUS == 220
TROUT_MAX_PACK_SIZE == 3
TROUT_MIN_ALLIES_FOR_PACK == 1
TROUT_ESCAPE_RADAR == 190
\* TROUT_ESCAPE_SPEED_MULTIPLIER = 1.6, in tenths.
TROUT_ESCAPE_SPEED_MULTIPLIER_10 == 16
\* SHARK_HUNGER_THRESHOLD = 0.65, in hundredths.
SHARK_HUNGER_THRESHOLD_100 == 65
SHARK_HUNT_RADIUS_RELAXED == 260
SHARK_HUNT_RADIUS_HUNGRY == 400
SHARK_TARGET_PERSISTENCE == 480

(***************************************************************************)
(* Species parameters set by the constructors.                             *)
(***************************************************************************)
Width(kind) ==
    CASE kind = "Plant" -> Px(14) [] kind = "Fish" -> Px(20)
      [] kind = "Trout" -> Px(35) [] kind = "Shark" -> Px(45)
Height(kind) == Width(kind)
InitEnergy(kind) ==
    CASE kind = "Fish" -> En(70) [] kind = "Trout" -> En(120) [] kind = "Shark" -> En(200)
MaxEnergy(kind) ==
    CASE kind = "Fish" -> En(100) [] kind = "Trout" -> En(180) [] kind = "Shark" -> En(300)
Lifespan(kind) ==
    CASE kind = "Fish" -> Sec(120) [] kind = "Trout" -> Sec(180) [] kind = "Shark" -> Sec(300)
\* base_consumption, in hundredths.
BaseConsumption(kind) ==
    CASE kind = "Fish" -> 100 [] kind = "Trout" -> 150 [] kind = "Shark" -> 80
\* base_speed = random.uniform(MIN, MAX): the value the model draws, in hundredths
\* (fish in [1.0, 2.0], trout in [0.9, 1.9], sharks in [0.9, 1.3]).
DrawnBaseSpeed(kind) ==
    CASE kind = "Fish" -> 150 [] kind = "Trout" -> 150 [] kind = "Shark" -> 100

\* max_energy * pct / 100 (max_energy is a whole number of energy units).
Fraction(max_energy, pct) == (max_energy \div 100) * pct

\* A faulty bound that forgets the entity's width.
MaxXWide(kind) == Px(GAME_AREA_WIDTH)

\* max_x and max_y of clamp_to_bounds, move_towards_target and set_random_position.
MaxX(kind) == Px(GAME_AREA_WIDTH) - Width(kind)
MaxY(kind) == Px(SCREEN_HEIGHT) - Height(kind)

(***************************************************************************)
(* State.  The four lists, the clock, the event log and the counters are   *)
(* Ecosystem's fields; the rest is GameController's.  detached holds the   *)
(* entity objects that left their list but can still be referenced by a    *)
(* target_entity.  decisions records what each decide_action of the last   *)
(* update read and chose, eaten the prey and the eater of each of its eat   *)
(* events, and last_call the last operation called with its arguments.     *)
(* pc is the position of GameController.run in its loop, delta the delta   *)
(* of the current frame (milliseconds), and turn_boundary whether the last *)
(* GameController.update found the turn over.  ecosistema is an object of  *)
(* logic.Ecosistema: its four lists and its eventos_visuales.              *)
(***************************************************************************)
VARIABLES plants, fish, trout, sharks, time_system, events, turn_count,
          paused, next_entity_id, detached, decisions, eaten, last_call,
          simulation_running, simulation_paused, next_turn_time, ticks,
          current_save_id, loaded_from_save, pc, delta, turn_boundary,
          ecosistema, saves, auto_save_enabled, auto_save_interval_days,
          last_auto_saved_day, auto_log

ecoVars == <<plants, fish, trout, sharks, time_system, events, turn_count,
             paused, next_entity_id, detached, decisions, eaten>>
ctlVars == <<simulation_running, simulation_paused, next_turn_time, ticks,
             current_save_id, loaded_from_save, pc, delta, turn_boundary>>
vars == <<plants, fish, trout, sharks, time_system, events, turn_count,
          paused, next_entity_id, detached, decisions, eaten, last_call,
          simulation_running, simulation_paused, next_turn_time, ticks,
          current_save_id, loaded_from_save, pc, delta, turn_boundary,
          ecosistema, saves, auto_save_enabled, auto_save_interval_days,
          last_auto_saved_day, auto_log>>
\* The files of SaveManager's directory (saves: save_id -> content) and the
\* auto-save fields of GameController (None is 0 for _last_auto_saved_day);
\* auto_log records the last call of _maybe_auto_save.
saveVars == <<saves, auto_save_enabled, auto_save_interval_days,
              last_auto_saved_day, auto_log>>
\* The state outside game_logic.Ecosystem and the frame loop of
\* GameController: the logic.Ecosistema object of the older module logic.py,
\* the save files and the auto-save fields.
otherVars == <<ecosistema, saves, auto_save_enabled, auto_save_interval_days,
               last_auto_saved_day, auto_log>>

(***************************************************************************)
(* Entities.                                                               *)
(***************************************************************************)
\* Plant(0, 0) followed by _assign_id.
NewPlant(eid) ==
    [kind |-> "Plant", eid |-> eid, x |-> 0, y |-> 0,
     target_x |-> 0, target_y |-> 0, growth |-> 100]

\* Fish(0, 0), Trout(0, 0), Shark(0, 0) followed by _assign_id.
NewAnimal(kind, eid, x, y) ==
    [kind |-> kind, eid |-> eid, x |-> x, y |-> y,
     target_x |-> x, target_y |-> y,
     energy |-> InitEnergy(kind), age |-> 0,
     base_speed |-> DrawnBaseSpeed(kind),
     speed |-> DrawnBaseSpeed(kind) * 100,
     consumption |-> BaseConsumption(kind) * 100,
     direction |-> 1, state |-> "idle", target_entity |-> 0,
     season_move_mult |-> 100]

\* set_random_position with the drawn point p (pixels): randint(0, max_x),
\* randint(0, max_y); the target becomes the position.
\* random.randint(lo, hi) for a raw draw: a whole number of lo..hi.
RandInt(lo, hi, draw) == lo + (draw % (hi - lo + 1))

\* set_random_position with the draws p: x = randint(0, max(0, max_x)),
\* y = randint(0, max(0, max_y)), in pixels; the target is the position.
SetRandomPosition(e, p) ==
    LET rx == Px(RandInt(0, Max(0, MaxX(e.kind) \div 10), p[1]))
        ry == Px(RandInt(0, Max(0, MaxY(e.kind) \div 10), p[2]))
    IN  [e EXCEPT !.x = rx, !.y = ry, !.target_x = rx, !.target_y = ry]

\* rect.x, rect.y as update_position leaves them: int(x), int(y), in pixels.
RectX(e) == e.x \div 10
RectY(e) == e.y \div 10

\* pygame.Rect.colliderect on the two rects (width and height in pixels).
CollideRect(a, b) ==
    /\ RectX(a) < RectX(b) + Width(b.kind) \div 10
    /\ RectX(b) < RectX(a) + Width(a.kind) \div 10
    /\ RectY(a) < RectY(b) + Height(b.kind) \div 10
    /\ RectY(b) < RectY(a) + Height(a.kind) \div 10

IsDead(a) == a.energy <= 0 \/ a.age >= Lifespan(a.kind)

(***************************************************************************)
(* TimeSystem                                                              *)
(***************************************************************************)
\* TimeSystem.turn is a Python float.  The model keeps it as a whole number of
\* units of 2^-FracBits turns and rounds every sum to FloatBits significant
\* bits, half to even, as float addition does (with 53 bits in Python).
FracBits == 16

FloatBits == 20

RECURSIVE Pow2(_)
Pow2(n) == IF n = 0 THEN 1 ELSE 2 * Pow2(n - 1)

\* n turns, in units.
Turns(n) == n * Pow2(FracBits)

\* The spacing of the floats around n.
RECURSIVE Ulp(_)
Ulp(n) == IF n < Pow2(FloatBits) THEN 1 ELSE 2 * Ulp(n \div 2)

RoundTo(n, u) ==
    IF 2 * (n % u) < u \/ (2 * (n % u) = u /\ (n \div u) % 2 = 0)
    THEN (n \div u) * u
    ELSE ((n \div u) + 1) * u

\* The float nearest to n.
RoundFloat(n) == RoundTo(n, Ulp(n))

\* A faulty day length, one unit long.
DayLengthOff == Turns(DAY_CYCLE_TURNS) + 1

\* cfg.DAY_CYCLE_TURNS, in units.
DayLength == Turns(DAY_CYCLE_TURNS)

\* _recalculate; day_progress is kept as its numerator over DAY_CYCLE_TURNS
\* (in units): dividing a float by 32 is exact.
Recalculate(turn) ==
    [turn |-> turn,
     day_progress |-> turn % DayLength,
     day |-> (turn \div DayLength) + 1,
     season_index |-> ((turn \div DayLength) \div DAYS_PER_SEASON) % Len(SEASONS_ORDER)]

NewTimeSystem == [turn |-> 0, day |-> 1, season_index |-> 0, day_progress |-> 0]

\* update(delta_turns): "self.turn += float(delta_turns)", delta_turns in units.
TimeUpdate(ts, delta_turns) == Recalculate(RoundFloat(ts.turn + delta_turns))

\* TimeSystem.to_dict
TimeToDict(ts) == [turn |-> ts.turn]

\* A faulty from_dict that sets turn and does not recalculate.
FromDictStale(data) == [NewTimeSystem EXCEPT !.turn = data.turn]

\* TimeSystem.from_dict
TimeFromDict(data) == Recalculate(data.turn)

\* SEASONS_ORDER is a 0-based tuple in the code.
GetSeason(ts) == SEASONS_ORDER[ts.season_index + 1]

(***************************************************************************)
(* Search utilities.  A world w is the four lists as the running update    *)
(* sees them: [plants, fish, trout, sharks].                               *)
(***************************************************************************)
DistSq(a, b) == (a.x - b.x) * (a.x - b.x) + (a.y - b.y) * (a.y - b.y)

\* The first index of s whose key is least: list.sort is stable.
RECURSIVE MinIndex(_, _, _, _)
MinIndex(s, entity, i, best) ==
    IF i > Len(s) THEN best
    ELSE MinIndex(s, entity, i + 1,
                  IF DistSq(s[i], entity) < DistSq(s[best], entity) THEN i ELSE best)

RemoveAt(s, i) == SubSeq(s, 1, i - 1) \o SubSeq(s, i + 1, Len(s))

\* nearby.sort(key = distance to entity)
RECURSIVE SortByDistance(_, _)
SortByDistance(s, entity) ==
    IF Len(s) <= 1 THEN s
    ELSE LET i == MinIndex(s, entity, 2, 1)
         IN <<s[i]>> \o SortByDistance(RemoveAt(s, i), entity)

\* A faulty test that leaves out the entities at exactly the radius.
InRadiusStrict(entity, radius, other) ==
    /\ other.eid # entity.eid
    /\ DistSq(other, entity) < Px(radius) * Px(radius)

\* other == entity is object identity: the same eid.
InRadius(entity, radius, other) ==
    /\ other.eid # entity.eid
    /\ DistSq(other, entity) <= Px(radius) * Px(radius)

get_nearby_entities(entity, radius, entity_list) ==
    SortByDistance(SelectSeq(entity_list, LAMBDA o : InRadius(entity, radius, o)),
                   entity)

get_nearby_predators(w, entity, radius) ==
    IF entity.kind = "Fish"
    THEN get_nearby_entities(entity, radius, w.trout)
         \o get_nearby_entities(entity, radius, w.sharks)
    ELSE IF entity.kind = "Trout"
    THEN get_nearby_entities(entity, radius, w.sharks)
    ELSE <<>>

form_trout_pack(w, leader, radius, max_size) ==
    LET allies == get_nearby_entities(leader, radius, w.trout)
    IN <<leader>> \o SubSeq(allies, 1, Min(Len(allies), max_size - 1))

Range(s) == {s[i] : i \in 1..Len(s)}
Eids(s) == {s[i].eid : i \in 1..Len(s)}
\* x in list, for an entity reference x.
InList(eid, s) == eid # 0 /\ eid \in Eids(s)
ByEid(s, eid) == s[CHOOSE i \in 1..Len(s) : s[i].eid = eid]

RECURSIVE SumX(_)
SumX(s) == IF s = <<>> THEN 0 ELSE Head(s).x + SumX(Tail(s))
RECURSIVE SumY(_)
SumY(s) == IF s = <<>> THEN 0 ELSE Head(s).y + SumY(Tail(s))

(***************************************************************************)
(* Random draws of one update.  w is what the wander and patrol rolls and  *)
(* their randint offsets give every animal that reaches them in this       *)
(* update: go is random.random() < p, sx and sy scale the largest offset   *)
(* of the randint range (0 is the middle of the range).  roll1 and roll2   *)
(* are the animals whose first and second random.random() of can_reproduce *)
(* fall under the species' chance; spawn is the point set_random_position  *)
(* draws for an offspring.                                                 *)
(***************************************************************************)
WanderDraws ==
    {[go |-> FALSE, sx |-> 0, sy |-> 0],
     [go |-> TRUE, sx |-> 1, sy |-> 0],
     [go |-> TRUE, sx |-> 0 - 1, sy |-> 1]}

(***************************************************************************)
(* Fish.decide_action.  Returns the fish and the record of the decision.   *)
(***************************************************************************)
RECURSIVE SepX(_, _)
SepX(school, a) ==
    IF school = <<>> THEN 0
    ELSE LET o == Head(school)
             d == Hypot(a.x - o.x, a.y - o.y)
         IN (IF 0 < d /\ d < Px(FISH_SEPARATION_DISTANCE)
             THEN Quot((a.x - o.x) * Px(25), d) ELSE 0) + SepX(Tail(school), a)
RECURSIVE SepY(_, _)
SepY(school, a) ==
    IF school = <<>> THEN 0
    ELSE LET o == Head(school)
             d == Hypot(a.x - o.x, a.y - o.y)
         IN (IF 0 < d /\ d < Px(FISH_SEPARATION_DISTANCE)
             THEN Quot((a.y - o.y) * Px(25), d) ELSE 0) + SepY(Tail(school), a)

\* What a decide_action did: the rule that fired ("none" when the chain fell
\* through), the entity whose position the target was computed from (src),
\* the target_entity before and after, the eids of the pack a trout formed,
\* and the target position and state tag that the decision left.  For a
\* fish: whether a predator was within its flee radius (threat), whether
\* its energy was below 30% (hungry), the nearest plant within 120 pixels
\* (nearest) and the number of fish within FISH_SCHOOL_RADIUS (school).
Decided(a, a2, rule, src) ==
    [a |-> a2,
     dec |-> [eid |-> a.eid, kind |-> a.kind, rule |-> rule, src |-> src,
              pre_target |-> a.target_entity, post_target |-> a2.target_entity,
              pre_live |-> FALSE, pre_far |-> FALSE, scanned |-> FALSE, found |-> 0,
              nearest |-> 0, pack |-> {}, threat |-> FALSE, hungry |-> FALSE,
              school |-> 0, tx |-> a2.target_x, ty |-> a2.target_y, st |-> a2.state,
              seen |-> <<>>, start |-> <<>>, closest |-> {},
              checked |-> FALSE, bred |-> FALSE, paid |-> 0]]

FishWander(w, a, r) ==
    IF r.w.go
    THEN Decided(a, [a EXCEPT !.target_x = a.x + r.w.sx * Px(60),
                              !.target_y = a.y + r.w.sy * Px(40),
                              !.state = "moving"], "wander", 0)
    ELSE Decided(a, a, "none", 0)

FishSchool(w, a, r) ==
    LET school == get_nearby_entities(a, FISH_SCHOOL_RADIUS, w.fish)
    IN IF Len(school) >= FISH_SCHOOL_MIN_NEIGHBORS
       THEN LET avg_x == Quot(SumX(school), Len(school))
                avg_y == Quot(SumY(school), Len(school))
            IN Decided(a,
                       [a EXCEPT !.target_x = a.x + Quot((avg_x - a.x) * 4, 10)
                                              + SepX(school, a),
                                 !.target_y = a.y + Quot((avg_y - a.y) * 4, 10)
                                              + SepY(school, a),
                                 !.state = "schooling"], "school", 0)
       ELSE FishWander(w, a, r)

\* A faulty chain that goes to schooling without looking for a plant.
SchoolFirst(w, a, r) == FishSchool(w, a, r)

FishEatRule(w, a, r) ==
    LET found == IF a.energy < Fraction(MaxEnergy("Fish"), 30)
                 THEN get_nearby_entities(a, 120, w.plants) ELSE <<>>
    IN IF found # <<>>
       THEN Decided(a, [a EXCEPT !.target_x = found[1].x, !.target_y = found[1].y,
                                 !.state = "eating", !.target_entity = found[1].eid],
                    "eat", found[1].eid)
       ELSE FishSchool(w, a, r)

\* The trout and sharks within the radius that no other trout or shark is
\* nearer than.
ClosestPredators(w, a, radius) ==
    LET within == {o \in Range(w.trout) \cup Range(w.sharks) : InRadius(a, radius, o)}
    IN {o.eid : o \in {p \in within : \A q \in within : DistSq(a, p) <= DistSq(a, q)}}

FishDecide(w, a, r) ==
    LET predators == get_nearby_predators(w, a, 150)
        dx == a.x - predators[1].x
        dy == a.y - predators[1].y
        dist == Hypot(dx, dy)
        near == get_nearby_entities(a, 120, w.plants)
        d == IF predators # <<>> /\ dist > 0
             THEN Decided(a, [a EXCEPT !.target_x = a.x + Quot(dx * Px(120), dist),
                                       !.target_y = a.y + Quot(dy * Px(120), dist),
                                       !.state = "fleeing"], "flee", predators[1].eid)
             ELSE FishEatRule(w, a, r)
    IN [d EXCEPT !.dec.threat = predators # <<>>,
                 !.dec.closest = ClosestPredators(w, a, 150),
                 !.dec.hungry = a.energy < Fraction(MaxEnergy("Fish"), 30),
                 !.dec.nearest = IF near # <<>> THEN near[1].eid ELSE 0,
                 !.dec.school = Len(get_nearby_entities(a, FISH_SCHOOL_RADIUS, w.fish))]

(***************************************************************************)
(* Trout.decide_action.  It also writes to the other trout of its pack:    *)
(* the result carries the trout list with those writes (the caller puts    *)
(* the deciding trout itself back).                                        *)
(***************************************************************************)
\* The object a reference points to, whether or not it is still in a list.
Deref(w, eid) ==
    IF InList(eid, w.fish) THEN ByEid(w.fish, eid)
    ELSE IF InList(eid, w.trout) THEN ByEid(w.trout, eid)
    ELSE IF InList(eid, w.plants) THEN ByEid(w.plants, eid)
    ELSE IF InList(eid, w.sharks) THEN ByEid(w.sharks, eid)
    ELSE CHOOSE o \in detached : o.eid = eid

\* isinstance(self.target_entity, Fish) and self.target_entity in ecosystem.fish
\* A faulty check that only asks whether a target is set.
TargetSet(w, a) == a.target_entity # 0

TroutTargetAlive(w, a) == InList(a.target_entity, w.fish)

TroutWander(w, a, r) ==
    IF r.w.go
    THEN Decided(a, [a EXCEPT !.target_x = a.x + r.w.sx * Px(80),
                              !.target_y = a.y + r.w.sy * Px(60),
                              !.state = "moving"], "wander", 0)
    ELSE Decided(a, a, "none", 0)

TroutLoiter(w, a, r) ==
    LET allies == get_nearby_entities(a, 120, w.trout)
    IN IF allies # <<>>
       THEN Decided(a, [a EXCEPT !.target_x = Quot(SumX(allies), Len(allies))
                                              + r.w.sx * Px(30),
                                 !.target_y = Quot(SumY(allies), Len(allies))
                                              + r.w.sy * Px(20),
                                 !.state = "moving"], "loiter", 0)
       ELSE TroutWander(w, a, r)

\* for mate in pack: the writes to every trout of the list that is in the pack.
RetargetPack(trout_list, pack, target) ==
    SubSeq([i \in 1..Len(trout_list) |->
               IF trout_list[i].eid \in Eids(pack)
               THEN [trout_list[i] EXCEPT !.target_entity = target.eid,
                                          !.target_x = target.x,
                                          !.target_y = target.y,
                                          !.state = "hunting"]
               ELSE trout_list[i]],
           1, Len(trout_list))

TroutHunt(w, a, r) ==
    LET hungry == a.energy < Fraction(MaxEnergy("Trout"), 45)
        keep == hungry /\ TroutTargetAlive(w, a)
        fishes == get_nearby_entities(a, 260, w.fish)
        target == IF keep THEN Deref(w, a.target_entity)
                  ELSE IF hungry /\ fishes # <<>> THEN fishes[1]
                  ELSE [eid |-> 0]
        a1 == IF keep THEN a ELSE [a EXCEPT !.target_entity = target.eid]
        allies == get_nearby_entities(a, TROUT_PACK_RADIUS, w.trout)
        hunting == [a1 EXCEPT !.target_entity = target.eid,
                              !.target_x = target.x, !.target_y = target.y,
                              !.state = "hunting"]
        info == [pre_live |-> InList(a.target_entity, w.fish),
                 scanned |-> hungry /\ ~keep,
                 found |-> IF hungry /\ ~keep /\ fishes # <<>> THEN fishes[1].eid ELSE 0]
    IN IF hungry /\ target.eid # 0
       THEN IF Len(allies) >= TROUT_MIN_ALLIES_FOR_PACK
            THEN LET pack == form_trout_pack(w, a, TROUT_PACK_RADIUS, TROUT_MAX_PACK_SIZE)
                     d == Decided(a, hunting, "pack", target.eid)
                 IN [a |-> d.a, trout |-> RetargetPack(w.trout, pack, target),
                     dec |-> [d.dec EXCEPT !.pre_live = info.pre_live,
                                           !.scanned = info.scanned,
                                           !.found = info.found,
                                           !.pack = Eids(pack)]]
            ELSE LET d == Decided(a, [a1 EXCEPT !.target_x = target.x,
                                                !.target_y = target.y,
                                                !.state = "hunting"],
                                  "hunt", target.eid)
                 IN [a |-> d.a, trout |-> w.trout,
                     dec |-> [d.dec EXCEPT !.pre_live = info.pre_live,
                                           !.scanned = info.scanned,
                                           !.found = info.found]]
       ELSE LET d == TroutLoiter(w, a1, r)
            IN [a |-> d.a, trout |-> w.trout,
                dec |-> [d.dec EXCEPT !.pre_target = a.target_entity,
                                      !.pre_live = info.pre_live,
                                      !.scanned = info.scanned,
                                      !.found = info.found]]

TroutDecide(w, a, r) ==
    LET near == get_nearby_entities(a, TROUT_ESCAPE_RADAR, w.sharks)
        dx == a.x - near[1].x
        dy == a.y - near[1].y
        dist == Hypot(dx, dy)
    IN IF near # <<>> /\ dist > 0
       THEN LET d == Decided(a,
                       [a EXCEPT !.target_x = a.x + Quot(dx * Px(140), dist),
                                 !.target_y = a.y + Quot(dy * Px(140), dist),
                                 !.speed = (a.base_speed * a.season_move_mult
                                            * TROUT_ESCAPE_SPEED_MULTIPLIER_10) \div 10,
                                 !.state = "fleeing",
                                 !.target_entity = 0], "flee", near[1].eid)
            IN [a |-> d.a, trout |-> w.trout,
                dec |-> [d.dec EXCEPT !.pre_live = InList(a.target_entity, w.fish)]]
       ELSE TroutHunt(w,
                      IF near = <<>>
                      THEN [a EXCEPT !.speed = a.base_speed * a.season_move_mult]
                      ELSE a, r)

(***************************************************************************)
(* Shark.decide_action                                                     *)
(***************************************************************************)
\* A faulty check that never keeps a lock.
NoLock(w, a) == FALSE

\* isinstance(self.target_entity, Trout) and self.target_entity in ecosystem.trout
SharkTargetAlive(w, a) == InList(a.target_entity, w.trout)

\* The locked trout is kept while dist <= SHARK_TARGET_PERSISTENCE.
SharkWithinPersistence(a, t) ==
    DistSq(t, a) <= Px(SHARK_TARGET_PERSISTENCE) * Px(SHARK_TARGET_PERSISTENCE)

SharkHuntRadius(a) ==
    IF a.energy < Fraction(MaxEnergy("Shark"), SHARK_HUNGER_THRESHOLD_100)
    THEN SHARK_HUNT_RADIUS_HUNGRY ELSE SHARK_HUNT_RADIUS_RELAXED

SharkPatrol(w, a, r) ==
    IF r.w.go
    THEN Decided(a, [a EXCEPT !.target_x = Px(GAME_AREA_WIDTH) \div 2 + r.w.sx * Px(300),
                              !.target_y = Px(SCREEN_HEIGHT) \div 2 + r.w.sy * Px(200),
                              !.state = "patrolling"], "patrol", 0)
    ELSE Decided(a, a, "none", 0)

\* The lead point ahead of the prey: lead_factor 0.3 of (40, 20) pixels.
SharkLead(a, target) ==
    LET dx == target.x - a.x
        dy == target.y - a.y
        h == Hypot(dx, dy)
        dist == IF h = 0 THEN Px(1) ELSE h
    IN [a EXCEPT !.target_x = target.x + Quot(dx * Px(12), dist),
                 !.target_y = target.y + Quot(dy * Px(6), dist),
                 !.state = "hunting"]

SharkDecide(w, a, r) ==
    LET alive == SharkTargetAlive(w, a)
        keep == alive /\ SharkWithinPersistence(a, Deref(w, a.target_entity))
        trouts == get_nearby_entities(a, SharkHuntRadius(a), w.trout)
        target == IF keep THEN Deref(w, a.target_entity)
                  ELSE IF trouts # <<>> THEN trouts[1]
                  ELSE [eid |-> 0]
        a1 == IF ~keep /\ trouts # <<>>
              THEN [a EXCEPT !.target_entity = target.eid] ELSE a
        d == IF target.eid # 0
             THEN Decided(a, SharkLead(a1, target), "hunt", target.eid)
             ELSE SharkPatrol(w, a1, r)
    IN [a |-> d.a,
        dec |-> [d.dec EXCEPT !.pre_target = a.target_entity,
                              !.pre_live = InList(a.target_entity, w.trout),
                              !.pre_far = alive /\ ~keep,
                              !.scanned = ~keep,
                              !.found = IF ~keep /\ trouts # <<>>
                                        THEN trouts[1].eid ELSE 0,
                              !.nearest = IF trouts # <<>> THEN trouts[1].eid ELSE 0]]

(***************************************************************************)
(* Animal.update                                                           *)
(***************************************************************************)
apply_season_modifiers(a, ts) ==
    [a EXCEPT !.season_move_mult = SeasonMovement(GetSeason(ts)),
              !.speed = a.base_speed * SeasonMovement(GetSeason(ts)),
              !.consumption = BaseConsumption(a.kind) * SeasonConsumption(GetSeason(ts))]

\* energy = max(0.0, energy - consumption * delta_time); age += delta_time
Metabolize(a, delta_time) ==
    [a EXCEPT !.energy = Max(0, a.energy - a.consumption * delta_time),
              !.age = a.age + delta_time]

clamp_to_bounds(a) ==
    [a EXCEPT !.x = Max(0, Min(a.x, MaxX(a.kind))),
              !.y = Max(0, Min(a.y, MaxY(a.kind)))]

\* move_towards_target(speed): speed in deci-pixels.
move_towards_target(a, speed) ==
    LET tx == Max(0, Min(a.target_x, MaxX(a.kind)))
        ty == Max(0, Min(a.target_y, MaxY(a.kind)))
        dx == tx - a.x
        dy == ty - a.y
        dist == Hypot(dx, dy)
        dir == IF dx # 0 THEN (IF dx > 0 THEN 1 ELSE 0 - 1) ELSE a.direction
        b == [a EXCEPT !.target_x = tx, !.target_y = ty, !.direction = dir]
    IN IF dist < speed \/ dist < 5
       THEN clamp_to_bounds([b EXCEPT !.x = tx, !.y = ty])
       ELSE IF dist > 0
       THEN clamp_to_bounds([b EXCEPT !.x = a.x + Quot(dx * speed, dist),
                                      !.y = a.y + Quot(dy * speed, dist)])
       ELSE clamp_to_bounds(b)

\* speed * delta_time * 60 pixels, in deci-pixels.
StepLength(a, delta_time) == (a.speed * delta_time * 6) \div 1000

MoveIfActive(a, delta_time) ==
    IF a.state # "idle" THEN move_towards_target(a, StepLength(a, delta_time)) ELSE a

(***************************************************************************)
(* Reproduction                                                            *)
(***************************************************************************)
ReproThreshold100(kind) ==
    CASE kind = "Fish" -> 70 [] kind = "Trout" -> 60 [] kind = "Shark" -> 70
ReproMinAge(kind) ==
    CASE kind = "Fish" -> Sec(3) [] kind = "Trout" -> Sec(6) [] kind = "Shark" -> Sec(8)
ReproCost(kind) ==
    CASE kind = "Fish" -> En(30) [] kind = "Trout" -> En(50) [] kind = "Shark" -> En(80)
BabyEnergy(kind) ==
    CASE kind = "Fish" -> En(50) [] kind = "Trout" -> En(100) [] kind = "Shark" -> En(150)

\* can_reproduce without its random.random() < chance.
Fertile(a) ==
    /\ a.energy > Fraction(MaxEnergy(a.kind), ReproThreshold100(a.kind))
    /\ a.age > ReproMinAge(a.kind)

\* can_reproduce as the loop calls it, and as reproduce calls it again.
can_reproduce(a, roll) == Fertile(a) /\ a.eid \in roll

\* reproduce: the parent after paying, and the offspring at the parent's place.
ReproduceParent(a) == [a EXCEPT !.energy = a.energy - ReproCost(a.kind)]
ReproduceBaby(a) ==
    [NewAnimal(a.kind, 0 - 1, a.x, a.y) EXCEPT !.energy = BabyEnergy(a.kind)]

SpeciesName(kind) ==
    CASE kind = "Fish" -> "pez" [] kind = "Trout" -> "trucha" [] kind = "Shark" -> "tiburon"

(***************************************************************************)
(* Ecosystem._update_animals.  The running update is a record u: the four  *)
(* lists, events, next_id, and the locals of the method (dead and born,    *)
(* per species), with the decisions made so far.                           *)
(***************************************************************************)
ListOf(u, kind) ==
    CASE kind = "Plant" -> u.plants [] kind = "Fish" -> u.fish
      [] kind = "Trout" -> u.trout [] kind = "Shark" -> u.sharks
SetList(u, kind, l) ==
    CASE kind = "Plant" -> [u EXCEPT !.plants = l]
      [] kind = "Fish" -> [u EXCEPT !.fish = l]
      [] kind = "Trout" -> [u EXCEPT !.trout = l]
      [] kind = "Shark" -> [u EXCEPT !.sharks = l]

\* The phases an update has gone through so far, each with the number of
\* plants in the list at that moment.
Tag(u, ph) == [u EXCEPT !.phases = Append(u.phases, [ph |-> ph, n |-> Len(u.plants)])]

\* decide_action of the animal's class.  The record of the decision also
\* keeps where the entity it aimed at or fled from (src) was when the
\* decision read it (seen), and where that entity was when update() began
\* (start; empty for an entity that was in no list then).
Sighted(u, d, o) ==
    IF d.dec.src = 0 THEN d
    ELSE [d EXCEPT !.dec.seen = <<o.x, o.y>>,
                   !.dec.start = IF d.dec.src \in DOMAIN u.start
                                 THEN u.start[d.dec.src] ELSE <<>>]

DecideOf(u, a, r) ==
    CASE a.kind = "Fish" -> FishDecide(u, a, r)
      [] a.kind = "Trout" -> TroutDecide(u, a, r)
      [] a.kind = "Shark" -> SharkDecide(u, a, r)

Seen(u, d) == Sighted(u, d, IF d.dec.src = 0 THEN d.a ELSE Deref(u, d.dec.src))

Decide(u, a, r) == Seen(u, DecideOf(u, a, r))

\* A faulty birth whose _assign_id leaves _next_entity_id where it was.
AddBabySameId(u, parent, r) ==
    LET baby == SetRandomPosition([ReproduceBaby(parent) EXCEPT !.eid = u.next_id],
                                  r.spawn)
    IN [u EXCEPT !.born[parent.kind] = Append(u.born[parent.kind], baby),
                 !.events = Append(u.events,
                                   [type |-> "birth",
                                    position |-> <<parent.x, parent.y>>,
                                    species |-> SpeciesName(parent.kind)])]

\* _assign_id and set_random_position of an offspring, and its birth event.
AddBaby(u, parent, r) ==
    LET baby == SetRandomPosition([ReproduceBaby(parent) EXCEPT !.eid = u.next_id],
                                  r.spawn)
    IN [u EXCEPT !.next_id = u.next_id + 1,
                 !.born[parent.kind] = Append(u.born[parent.kind], baby),
                 !.events = Append(u.events,
                                   [type |-> "birth",
                                    position |-> <<parent.x, parent.y>>,
                                    species |-> SpeciesName(parent.kind)])]

\* One iteration of "for animal in self.<list>": Animal.update, then the
\* reproduction branch.
\* The reproduction branch of one iteration, for the animal a4 that
\* Animal.update left alive.  The record of its decision keeps whether the
\* loop's can_reproduce() was true (checked), whether reproduce() returned
\* an offspring (bred) and the energy the parent paid.
Reproduction(u1, kind, i, r, a4, dec) ==
    LET born == can_reproduce(a4, r.roll1) /\ can_reproduce(a4, r.roll2)
        a5 == IF born THEN ReproduceParent(a4) ELSE a4
        u2 == [SetList(u1, kind, [ListOf(u1, kind) EXCEPT ![i] = a5])
                  EXCEPT !.decisions =
                             Append(u1.decisions,
                                    [dec EXCEPT !.checked = can_reproduce(a4, r.roll1),
                                                !.bred = born,
                                                !.paid = a4.energy - a5.energy])]
    IN IF born THEN AddBaby(u2, a5, r) ELSE u2

\* Animal.update from decide_action on; d is what decide_action left.
AfterDecide(u, kind, i, delta_time, r, d) ==
    Reproduction(IF kind = "Trout" THEN [u EXCEPT !.trout = d.trout] ELSE u,
                kind, i, r, MoveIfActive(d.a, delta_time), d.dec)

\* One iteration of "for animal in self.<list>": Animal.update, then the
\* reproduction branch.
UpdateOne(u, kind, i, delta_time, r, ts) ==
    LET a0 == ListOf(u, kind)[i]
        a2 == Metabolize(apply_season_modifiers(a0, ts), delta_time)
    IN IF IsDead(a2)
       THEN [SetList(u, kind, [ListOf(u, kind) EXCEPT ![i] = a2])
                EXCEPT !.dead[kind] = Append(u.dead[kind], a2.eid)]
       ELSE AfterDecide(u, kind, i, delta_time, r, Decide(u, a2, r))

RECURSIVE UpdateList(_, _, _, _, _, _)
UpdateList(u, kind, i, delta_time, r, ts) ==
    IF i > Len(ListOf(u, kind)) THEN u
    ELSE UpdateList(Tag(UpdateOne(u, kind, i, delta_time, r, ts), "decide"), kind,
                    i + 1, delta_time, r, ts)

\* A faulty removal loop that leaves the dead in their list.
RemoveDeadSkipped(u, kind, k) == u

\* "for x in dead: if x in list: list.remove(x); events.append(death)"
RECURSIVE RemoveDead(_, _, _)
RemoveDead(u, kind, k) ==
    IF k > Len(u.dead[kind]) THEN u
    ELSE LET eid == u.dead[kind][k]
             l == ListOf(u, kind)
         IN IF InList(eid, l)
            THEN LET a == ByEid(l, eid)
                 IN RemoveDead(
                      [SetList(u, kind, SelectSeq(l, LAMBDA o : o.eid # eid))
                          EXCEPT !.events = Append(u.events,
                                                   [type |-> "death",
                                                    position |-> <<a.x, a.y>>]),
                                 !.gone = u.gone \cup {a}],
                      kind, k + 1)
            ELSE RemoveDead(u, kind, k + 1)

ExtendBorn(u) ==
    [u EXCEPT !.fish = u.fish \o u.born["Fish"],
              !.trout = u.trout \o u.born["Trout"],
              !.sharks = u.sharks \o u.born["Shark"]]

update_animals(u, delta_time, r, ts) ==
    LET u1 == UpdateList(u, "Fish", 1, delta_time, r, ts)
        u2 == UpdateList(u1, "Trout", 1, delta_time, r, ts)
        u3 == UpdateList(u2, "Shark", 1, delta_time, r, ts)
        u4 == RemoveDead(u3, "Fish", 1)
        u5 == RemoveDead(u4, "Trout", 1)
        u6 == RemoveDead(u5, "Shark", 1)
    IN Tag(ExtendBorn(Tag(u6, "deaths")), "births")

(***************************************************************************)
(* Ecosystem._process_interactions                                         *)
(***************************************************************************)
PreyKind(kind) ==
    CASE kind = "Fish" -> "Plant" [] kind = "Trout" -> "Fish" [] kind = "Shark" -> "Trout"

\* The energy eat() returns: Plant.consume for a fish, min(35, 0.5 * energy)
\* for a trout, min(85, 0.7 * energy) for a shark.
EatGain(pred, prey) ==
    CASE pred.kind = "Fish" -> (En(20) * prey.growth) \div 100
      [] pred.kind = "Trout" -> Min(En(35), prey.energy \div 2)
      [] pred.kind = "Shark" -> Min(En(85), (prey.energy * 7) \div 10)

\* A faulty eat() that adds the energy without "min(self.max_energy, ...)".
EatUncapped(pred, prey) ==
    [pred EXCEPT !.energy = pred.energy + EatGain(pred, prey),
                 !.state = "idle", !.target_entity = 0]

\* eat(): the predator afterwards.
Eat(pred, prey) ==
    [pred EXCEPT !.energy = Min(MaxEnergy(pred.kind), pred.energy + EatGain(pred, prey)),
                 !.state = "idle", !.target_entity = 0]

\* A faulty loop body that records the eat event and leaves the prey in its list.
ConsumeKeep(u, kind, i, prey) ==
    LET pred == ListOf(u, kind)[i]
    IN [u EXCEPT !.events = Append(u.events,
                                   [type |-> "eat", position |-> <<pred.x, pred.y>>,
                                    energy |-> EatGain(pred, prey),
                                    eater |-> SpeciesName(kind)]),
                 !.eaten = Append(u.eaten, [prey |-> prey, eater |-> pred.eid]),
                 !.phases = Append(u.phases, [ph |-> "eat", n |-> Len(u.plants)])]

\* "if prey in list: list.remove(prey)", the eat event, and the break.
Consume(u, kind, i, prey) ==
    LET pred == ListOf(u, kind)[i]
        l == ListOf(u, PreyKind(kind))
    IN [SetList(u, PreyKind(kind), SelectSeq(l, LAMBDA o : o.eid # prey.eid))
           EXCEPT !.events = Append(u.events,
                                    [type |-> "eat", position |-> <<pred.x, pred.y>>,
                                     energy |-> EatGain(pred, prey),
                                     eater |-> SpeciesName(kind)]),
                  !.eaten = Append(u.eaten, [prey |-> prey, eater |-> pred.eid]),
                  !.gone = u.gone \cup {prey},
                  !.phases = Append(u.phases, [ph |-> "eat", n |-> Len(u.plants)])]

\* The indices of the copy whose prey overlaps the predator and yields energy.
Yielding(pred, copy) ==
    {j \in 1..Len(copy) : CollideRect(pred, copy[j]) /\ EatGain(pred, copy[j]) > 0}

\* The end of the inner loop of predator i: how many entries of the copy it
\* looked at, the index at which it ate (0: it did not eat), and the first
\* index and the number of the entries that overlap it and yield energy.
Scanned(u, kind, i, copy, looked, at) ==
    LET pred == ListOf(u, kind)[i]
        y == Yielding(pred, copy)
    IN [u EXCEPT !.scans = Append(u.scans,
                                  [eater |-> pred.eid, looked |-> looked, at |-> at,
                                   first |-> IF y = {} THEN 0
                                             ELSE CHOOSE j \in y : \A k \in y : j <= k,
                                   overlaps |-> Cardinality(y)])]

\* A faulty inner loop without the break: the predator goes on through the
\* copy after it has eaten.
RECURSIVE ScanPreyNoBreak(_, _, _, _, _)
ScanPreyNoBreak(u, kind, i, copy, j) ==
    IF j > Len(copy) THEN Scanned(u, kind, i, copy, Len(copy), 0)
    ELSE LET pred == ListOf(u, kind)[i]
             prey == copy[j]
         IN IF CollideRect(pred, prey)
            THEN LET u1 == SetList(u, kind,
                                   [ListOf(u, kind) EXCEPT ![i] = Eat(pred, prey)])
                 IN IF EatGain(pred, prey) > 0
                    THEN ScanPreyNoBreak(Scanned(Consume(u1, kind, i, prey), kind, i,
                                                 copy, j, j),
                                         kind, i, copy, j + 1)
                    ELSE ScanPreyNoBreak(u1, kind, i, copy, j + 1)
            ELSE ScanPreyNoBreak(u, kind, i, copy, j + 1)

\* The inner loop of predator i over the copy of the prey list.
RECURSIVE ScanPrey(_, _, _, _, _)
ScanPrey(u, kind, i, copy, j) ==
    IF j > Len(copy) THEN Scanned(u, kind, i, copy, Len(copy), 0)
    ELSE LET pred == ListOf(u, kind)[i]
             prey == copy[j]
         IN IF CollideRect(pred, prey)
            THEN LET u1 == SetList(u, kind,
                                   [ListOf(u, kind) EXCEPT ![i] = Eat(pred, prey)])
                 IN IF EatGain(pred, prey) > 0
                    THEN Scanned(Consume(u1, kind, i, prey), kind, i, copy, j, j)
                    ELSE ScanPrey(u1, kind, i, copy, j + 1)
            ELSE ScanPrey(u, kind, i, copy, j + 1)

RECURSIVE Interact(_, _, _)
Interact(u, kind, i) ==
    IF i > Len(ListOf(u, kind)) THEN u
    ELSE Interact(ScanPrey(u, kind, i, ListOf(u, PreyKind(kind)), 1), kind, i + 1)

process_interactions(u) ==
    Interact(Interact(Interact(u, "Fish", 1), "Trout", 1), "Shark", 1)

(***************************************************************************)
(* Ecosystem._balance_populations                                          *)
(***************************************************************************)
RECURSIVE TopUpPlants(_, _, _)
TopUpPlants(u, deficit, r) ==
    IF deficit <= 0 THEN u
    ELSE TopUpPlants([u EXCEPT !.plants = Append(u.plants,
                                   SetRandomPosition(NewPlant(u.next_id), r.spawn)),
                               !.next_id = u.next_id + 1],
                     deficit - 1, r)

balance_populations(u, r) ==
    IF Len(u.plants) < POPULATION_LIMITS.plantas.min
    THEN TopUpPlants(u, POPULATION_LIMITS.plantas.min - Len(u.plants), r)
    ELSE IF Len(u.plants) > POPULATION_LIMITS.plantas.max
    THEN [u EXCEPT !.plants = SubSeq(u.plants, 1, POPULATION_LIMITS.plantas.max),
                   !.gone = u.gone \cup
                            {u.plants[k] : k \in (POPULATION_LIMITS.plantas.max + 1)
                                                 ..Len(u.plants)}]
    ELSE u

(***************************************************************************)
(* Ecosystem.update                                                        *)
(***************************************************************************)
\* A faulty update that keeps the events of the earlier updates.
KeepEvents(ev) == ev

\* self.events.clear()
ClearEvents(ev) == <<>>

Grow(p, delta_time) == [p EXCEPT !.growth = Min(100, p.growth + delta_time)]

\* update() below the paused check, up to the calls of the three phases:
\* the clock, events.clear() and the growth of the plants.  The running
\* update starts with the locals empty.
StartUpdate(delta_time) ==
    [plants |-> SubSeq([k \in 1..Len(plants) |-> Grow(plants[k], delta_time)],
                       1, Len(plants)),
     fish |-> fish, trout |-> trout, sharks |-> sharks,
     events |-> ClearEvents(events), next_id |-> next_entity_id,
     decisions |-> <<>>, eaten |-> <<>>, gone |-> {}, scans |-> <<>>,
     phases |-> <<[ph |-> "clock", n |-> Len(plants)]>>,
     start |-> [eid \in Eids(plants) \cup Eids(fish) \cup Eids(trout)
                        \cup Eids(sharks) |->
                    LET o == CHOOSE o \in Range(plants) \cup Range(fish)
                                         \cup Range(trout) \cup Range(sharks) :
                                   o.eid = eid
                    IN <<o.x, o.y>>],
     dead |-> [k \in {"Fish", "Trout", "Shark"} |-> <<>>],
     born |-> [k \in {"Fish", "Trout", "Shark"} |-> <<>>]]

\* A faulty update that resolves the interactions before the animals decide.
RunUpdateEatFirst(delta_time, r) ==
    LET ts == TimeUpdate(time_system, Turns(delta_time))
    IN balance_populations(
           Tag(update_animals(process_interactions(StartUpdate(delta_time)),
                              delta_time, r, ts), "balance"), r)

\* The body of update() below the paused check, up to the turn counter.
RunUpdate(delta_time, r) ==
    LET ts == TimeUpdate(time_system, Turns(delta_time))
    IN balance_populations(
           Tag(process_interactions(update_animals(StartUpdate(delta_time),
                                                   delta_time, r, ts)), "balance"), r)

\* The objects out of the lists that some animal still references.
Referenced(u, pool) ==
    {o \in pool :
        \E l \in {u.fish, u.trout, u.sharks} :
            \E k \in 1..Len(l) : l[k].target_entity = o.eid}

(***************************************************************************)
(* Inputs.  A scenario is a population_config with the points (pixels)     *)
(* that set_random_position draws at initialize, entity by entity in the   *)
(* order of creation (cyclically).  Every point lies in the randint range  *)
(* of every species.                                                       *)
(***************************************************************************)
MaxTurns == 3

DeltaTimes == {5, 300}

SpawnPoints == {<<100, 360>>, <<500, 360>>}

Config(p, f, t, s) == [plantas |-> p, peces |-> f, truchas |-> t, tiburones |-> s]

Scenarios ==
    {[config |-> Config(0, 1, 1, 1), points |-> <<<<500, 360>>, <<250, 360>>, <<0, 360>>>>],
     [config |-> Config(0, 0, 1, 2), points |-> <<<<250, 360>>, <<0, 360>>, <<500, 360>>>>],
     [config |-> Config(0, 1, 2, 0), points |-> <<<<500, 360>>, <<400, 360>>, <<450, 360>>>>],
     [config |-> Config(3, 2, 0, 0), points |-> <<<<100, 360>>>>],
     [config |-> Config(2, 3, 0, 0), points |-> <<<<100, 360>>, <<200, 360>>, <<150, 300>>>>],
     [config |-> Config(0 - 1, 1, 0, 0), points |-> <<<<955, 675>>>>],
     [config |-> Config(101, 0, 0, 0), points |-> <<<<0, 0>>, <<955, 675>>>>],
     [config |-> Config(0, 0, 0, 16), points |-> <<<<0, 0>>, <<955, 675>>>>],
     [config |-> Config(0, 0, 1, 15), points |-> <<<<500, 360>>>>],
     [config |-> Config(0, 0, 2, 1), points |-> <<<<200, 360>>, <<250, 360>>, <<0, 360>>>>],
     [config |-> Config(0, 1, 2, 1),
      points |-> <<<<560, 105>>, <<460, 360>>, <<560, 360>>, <<0, 360>>>>],
     [config |-> Config(0, 1, 2, 0), points |-> <<<<955, 360>>, <<900, 360>>, <<930, 360>>>>]}

PointFor(points, eid) == points[((eid - 1) % Len(points)) + 1]

(***************************************************************************)
(* Ecosystem.__init__ and GameController.__init__                          *)
(***************************************************************************)
\* logic.Ecosistema.__init__: empty containers.
NewEcosistema ==
    [plantas |-> <<>>, peces |-> <<>>, truchas |-> <<>>, tiburones |-> <<>>,
     eventos_visuales |-> <<>>]

\* Ecosystem.__init__: the four empty lists.
InitLists ==
    /\ plants = <<>>
    /\ fish = <<>>
    /\ trout = <<>>
    /\ sharks = <<>>

InitRest ==
    /\ time_system = NewTimeSystem
    /\ events = <<>>
    /\ turn_count = 0
    /\ paused = FALSE
    /\ next_entity_id = 1
    /\ detached = {}
    /\ decisions = <<>>
    /\ eaten = <<>>
    /\ last_call = [op |-> "init"]
    /\ simulation_running = FALSE
    /\ simulation_paused = FALSE
    /\ next_turn_time = 0
    /\ ticks = 0
    /\ current_save_id = 0
    /\ loaded_from_save = FALSE
    /\ pc = "events"
    /\ delta = 0
    /\ turn_boundary = FALSE

\* auto_log before the first call of _maybe_auto_save.
NoAutoLog ==
    [called |-> FALSE, wrote |-> FALSE, day |-> 0, last |-> 0, last_after |-> 0,
     interval |-> 0, enabled |-> FALSE, running |-> FALSE, paused |-> FALSE,
     save_id |-> 0, prev_write |-> 0, was_reset |-> FALSE, reset |-> FALSE]

\* SaveManager.__init__ on an empty directory and the auto-save fields of
\* GameController.__init__.
InitSaves ==
    /\ saves = <<>>
    /\ auto_save_enabled = FALSE
    /\ auto_save_interval_days = 30
    /\ last_auto_saved_day = 0
    /\ auto_log = NoAutoLog

InitGame == InitLists /\ InitRest /\ InitSaves

Init ==
    /\ InitGame
    /\ ecosistema = NewEcosistema

(***************************************************************************)
(* Ecosystem.initialize(population_config)                                 *)
(***************************************************************************)
\* "for _ in range(n)": the n entities of one species, with eids from first.
Spawned(kind, n, first, points) ==
    SubSeq([k \in 1..n |->
               SetRandomPosition(IF kind = "Plant" THEN NewPlant(first + k - 1)
                                 ELSE NewAnimal(kind, first + k - 1, 0, 0),
                                 PointFor(points, first + k - 1))],
           1, n)

\* range(n) is empty for n <= 0.
Count(n) == Max(0, n)

\* A faulty initialize() that does not clear its lists.
kept(l) == l

\* list.clear()
cleared(l) == <<>>

\* What the model remembers of the state an operation was called in.
Before ==
    [turn_count |-> turn_count, paused |-> paused,
     entities |-> Len(plants) + Len(fish) + Len(trout) + Len(sharks),
     events |-> Len(events)]

EcoInitialize(config, points) ==
    LET np == Count(config.plantas)
        nf == Count(config.peces)
        nt == Count(config.truchas)
        ns == Count(config.tiburones)
    IN /\ plants' = cleared(plants) \o Spawned("Plant", np, 1, points)
       /\ fish' = cleared(fish) \o Spawned("Fish", nf, 1 + np, points)
       /\ trout' = cleared(trout) \o Spawned("Trout", nt, 1 + np + nf, points)
       /\ sharks' = cleared(sharks) \o Spawned("Shark", ns, 1 + np + nf + nt, points)
       /\ events' = cleared(events)
       /\ next_entity_id' = 1 + np + nf + nt + ns
       /\ time_system' = NewTimeSystem
       /\ turn_count' = 0
       /\ paused' = FALSE
       /\ detached' = {}
       /\ decisions' = <<>>
       /\ eaten' = <<>>
       /\ last_call' = [op |-> "initialize", config |-> config, before |-> Before]

Initialize ==
    \E sc \in Scenarios :
        /\ EcoInitialize(sc.config, sc.points)
        /\ UNCHANGED ctlVars
        /\ UNCHANGED otherVars

(***************************************************************************)
(* Ecosystem.update(delta_time)                                            *)
(***************************************************************************)
\* The animals whose can_reproduce can reach its random roll in this update.
MayRoll(delta_time) ==
    {a.eid : a \in {b \in Range(fish) \cup Range(trout) \cup Range(sharks) :
                      /\ b.energy > Fraction(MaxEnergy(b.kind), ReproThreshold100(b.kind))
                      /\ b.age + delta_time > ReproMinAge(b.kind)}}

\* The spawn draw matters only when an offspring is born.
SpawnDraws(r2) == IF r2 = {} THEN {CHOOSE p \in SpawnPoints : TRUE} ELSE SpawnPoints

RandomDraws(delta_time) ==
    UNION {UNION {{[w |-> w, roll1 |-> r1, roll2 |-> r2, spawn |-> sp] :
                      w \in WanderDraws, sp \in SpawnDraws(r2)} :
                  r2 \in SUBSET r1} :
           r1 \in SUBSET MayRoll(delta_time)}

\* A faulty update() without its paused check.
NeverSkipped == FALSE

\* "if self.paused: return"
UpdateSkipped == paused

\* The state that one run of the body of update() leaves.
Commit(u, delta_time) ==
    /\ plants' = u.plants
    /\ fish' = u.fish
    /\ trout' = u.trout
    /\ sharks' = u.sharks
    /\ time_system' = TimeUpdate(time_system, Turns(delta_time))
    /\ events' = u.events
    /\ next_entity_id' = u.next_id
    /\ decisions' = u.decisions
    /\ eaten' = u.eaten
    /\ detached' = Referenced(u, detached \cup u.gone)
    /\ turn_count' = turn_count + 1
    /\ paused' = paused
    /\ last_call' = [op |-> "update", delta_time |-> delta_time, was_paused |-> paused,
                     births |-> Len(u.born["Fish"]) + Len(u.born["Trout"])
                                + Len(u.born["Shark"]),
                     deaths |-> Len(u.dead["Fish"]) + Len(u.dead["Trout"])
                                + Len(u.dead["Shark"]),
                     phases |-> u.phases, scans |-> u.scans,
                     born |-> u.born["Fish"] \o u.born["Trout"] \o u.born["Shark"]]

EcoUpdate(delta_time) ==
    IF UpdateSkipped
    THEN /\ last_call' = [op |-> "update", delta_time |-> delta_time,
                          was_paused |-> paused]
         /\ UNCHANGED <<plants, fish, trout, sharks, time_system, events, turn_count,
                        paused, next_entity_id, detached, decisions, eaten>>
    ELSE /\ turn_count < MaxTurns
         /\ \E r \in RandomDraws(delta_time) : Commit(RunUpdate(delta_time, r), delta_time)

Update ==
    \E delta_time \in DeltaTimes :
        /\ EcoUpdate(delta_time)
        /\ UNCHANGED ctlVars
        /\ UNCHANGED otherVars

(***************************************************************************)
(* Ecosystem.set_paused(paused)                                            *)
(***************************************************************************)
EcoSetPaused(b) ==
    /\ paused' = b
    /\ last_call' = [op |-> "set_paused", value |-> b]
    /\ UNCHANGED <<plants, fish, trout, sharks, time_system, events, turn_count,
                   next_entity_id, detached, decisions, eaten>>

SetPaused ==
    \E b \in BOOLEAN :
        /\ EcoSetPaused(b)
        /\ UNCHANGED ctlVars
        /\ UNCHANGED otherVars

Next == Initialize \/ Update \/ SetPaused

Spec == Init /\ [][Next]_vars

(***************************************************************************)
(* Ecosystem.get_statistics(): the counts, the turn and the calendar.      *)
(***************************************************************************)
\* "season_progress": (day % DAYS_PER_SEASON) / DAYS_PER_SEASON, kept as its
\* numerator: the quotients of 0..5 by 6 are six floats in that order.
SeasonProgress(ts) == ts.day % DAYS_PER_SEASON

get_statistics ==
    [plants |-> Len(plants), fish |-> Len(fish), trout |-> Len(trout),
     sharks |-> Len(sharks), turn |-> turn_count,
     season |-> GetSeason(time_system), day |-> time_system.day,
     season_progress |-> SeasonProgress(time_system)]

(***************************************************************************)
(* SaveManager.  A dict is a function from its keys; a file holds the JSON *)
(* text of {"version", "meta", "state"} and is kept as the value that      *)
(* json.load gives back.  The dicts written here have string keys and      *)
(* numbers, strings and dicts as values, which json.dump and json.load     *)
(* give back unchanged.  A save_id "<timestamp>_<slug>" is kept as the     *)
(* number of the pair (second, slug); datetime.now() is ticks, in          *)
(* milliseconds.                                                           *)
(***************************************************************************)
\* d.get(k, default)
Get(d, k, default) == IF k \in DOMAIN d THEN d[k] ELSE default

\* {**a, **b}
Merge(a, b) ==
    [k \in DOMAIN a \cup DOMAIN b |-> IF k \in DOMAIN b THEN b[k] ELSE a[k]]

\* The dict d with d[k] = v
Put(d, k, v) == [j \in DOMAIN d \cup {k} |-> IF j = k THEN v ELSE d[j]]

\* _safe_slug on the names of SaveNames: white space becomes "_".
SafeSlug(name) == IF name = "a b" THEN "a_b" ELSE name

Slugs == <<"a", "a_b">>

SlugIndex(slug) == CHOOSE i \in DOMAIN Slugs : Slugs[i] = slug

\* strftime("%Y%m%d_%H%M%S"): the time to the second.
Timestamp(now) == now \div 1000

\* _make_save_id
MakeSaveId(now, name) == Timestamp(now) * Len(Slugs) + SlugIndex(SafeSlug(name))

\* json.load(json.dump(payload)) of a dict of the kinds above.
JsonFile(payload) ==
    [version |-> payload.version,
     meta |-> [k \in DOMAIN payload.meta |-> payload.meta[k]],
     state |-> payload.state]

\* SaveManager.save: the files afterwards.
SaveFiles(files, now, save_name, meta, state) ==
    Put(files, MakeSaveId(now, save_name),
        JsonFile([version |-> 1,
                  meta |-> Merge([save_id |-> MakeSaveId(now, save_name),
                                  save_name |-> save_name,
                                  saved_at |-> Timestamp(now)], meta),
                  state |-> state]))

\* SaveManager.load; open() raises FileNotFoundError on a missing file.
LoadFile(files, save_id) ==
    IF save_id \in DOMAIN files
    THEN [raised |-> "", data |-> files[save_id]]
    ELSE [raised |-> "FileNotFoundError", data |-> <<>>]

\* SaveManager.delete_save
DeleteFile(files, save_id) == [k \in DOMAIN files \ {save_id} |-> files[k]]

\* The keys of meta_updates that overwrite copies into meta.
CopiedKeys(meta_updates) == DOMAIN meta_updates \ {"save_id", "saved_at"}

\* The meta that overwrite writes.
OverwriteMeta(meta, save_id, meta_updates, now) ==
    LET m1 == Put(meta, "save_id", save_id)
        m2 == Put(m1, "save_name",
                  Get(m1, "save_name", Get(meta_updates, "save_name", save_id)))
        m3 == Put(m2, "saved_at", Timestamp(now))
    IN  [k \in DOMAIN m3 \cup CopiedKeys(meta_updates) |->
            IF k \in CopiedKeys(meta_updates) THEN meta_updates[k] ELSE m3[k]]

\* SaveManager.overwrite: the files afterwards and the exception raised.
Overwrite(files, save_id, meta_updates, state, now) ==
    IF save_id \notin DOMAIN files
    THEN [raised |-> "FileNotFoundError", files |-> files]
    ELSE [raised |-> "",
          files |-> Put(files, save_id,
                        JsonFile([version |-> Get(files[save_id], "version", 1),
                                  meta |-> OverwriteMeta(Get(files[save_id], "meta", <<>>),
                                                         save_id, meta_updates, now),
                                  state |-> state]))]

(***************************************************************************)
(* A SaveManager on its own: save, overwrite and delete_save called with   *)
(* arguments of small sets while the clock runs.                           *)
(***************************************************************************)
MaxStoreSeconds == 1

MaxStoreFiles == 2

SaveNames == {"a", "a b", "a_b"}

StoreStates == {[ecosystem |-> [turn_count |-> n]] : n \in 0..1}

StoreMetas ==
    {<<>>, [cycle |-> 7], [save_name |-> "z"], [save_id |-> 99, saved_at |-> 99]}

\* The ids that a call can name: those the clock can give and one more.
StoreIds == 1..((MaxStoreSeconds + 1) * Len(Slugs) + 1)

StoreFrame ==
    /\ UNCHANGED ecoVars
    /\ UNCHANGED <<simulation_running, simulation_paused, next_turn_time,
                   current_save_id, loaded_from_save, pc, delta, turn_boundary>>
    /\ UNCHANGED <<ecosistema, auto_save_enabled, auto_save_interval_days,
                   last_auto_saved_day, auto_log>>

\* A second passes.
StoreTick ==
    /\ ticks < MaxStoreSeconds * 1000
    /\ ticks' = ticks + 1000
    /\ UNCHANGED <<saves, last_call>>
    /\ StoreFrame

StoreSave ==
    \E name \in SaveNames, state \in StoreStates :
        /\ Cardinality(DOMAIN saves \cup {MakeSaveId(ticks, name)}) <= MaxStoreFiles
        /\ saves' = SaveFiles(saves, ticks, name, [cycle |-> 0], state)
        /\ last_call' = [op |-> "save", save_name |-> name, state |-> state,
                         before |-> saves, returned |-> MakeSaveId(ticks, name)]
        /\ UNCHANGED ticks
        /\ StoreFrame

StoreOverwrite ==
    \E save_id \in StoreIds, meta_updates \in StoreMetas, state \in StoreStates :
        /\ last_call.op # "overwrite"
        /\ saves' = Overwrite(saves, save_id, meta_updates, state, ticks).files
        /\ last_call' = [op |-> "overwrite", save_id |-> save_id,
                         meta_updates |-> meta_updates, state |-> state,
                         before |-> saves,
                         raised |-> Overwrite(saves, save_id, meta_updates, state,
                                              ticks).raised]
        /\ UNCHANGED ticks
        /\ StoreFrame

StoreDelete ==
    \E save_id \in DOMAIN saves :
        /\ saves' = DeleteFile(saves, save_id)
        /\ last_call' = [op |-> "delete_save", save_id |-> save_id, before |-> saves]
        /\ UNCHANGED ticks
        /\ StoreFrame

NextStore == StoreTick \/ StoreSave \/ StoreOverwrite \/ StoreDelete

SpecStore == Init /\ [][NextStore]_vars

(***************************************************************************)
(* Serialization: Ecosystem.to_dict and Ecosystem.load_from_dict.  A dict  *)
(* is a record; None is 0 for target_id.  Fields that the model holds as   *)
(* functions of the species (name, max_energy, lifespan, base_consumption) *)
(* are left out of the dicts.                                              *)
(***************************************************************************)
\* Entity.to_dict, Plant.to_dict, Animal.to_dict
EntityToDict(o) ==
    IF o.kind = "Plant"
    THEN [id |-> o.eid, type |-> o.kind, x |-> o.x, y |-> o.y,
          target_x |-> o.target_x, target_y |-> o.target_y, growth |-> o.growth]
    ELSE [id |-> o.eid, type |-> o.kind, x |-> o.x, y |-> o.y,
          target_x |-> o.target_x, target_y |-> o.target_y,
          energy |-> o.energy, age |-> o.age, base_speed |-> o.base_speed,
          direction |-> o.direction, state |-> o.state,
          target_id |-> o.target_entity]

DictsOf(l) == SubSeq([k \in 1..Len(l) |-> EntityToDict(l[k])], 1, Len(l))

\* Ecosystem.to_dict
EcoToDict ==
    [paused |-> paused, turn_count |-> turn_count,
     next_entity_id |-> next_entity_id,
     time_system |-> TimeToDict(time_system),
     plants |-> DictsOf(plants), fish |-> DictsOf(fish),
     trout |-> DictsOf(trout), sharks |-> DictsOf(sharks)]

\* A faulty load_animal_state that leaves the age of the constructor.
load_animal_state_fresh(a, d) ==
    [a EXCEPT !.energy = d.energy, !.base_speed = d.base_speed,
              !.direction = d.direction, !.state = d.state,
              !.speed = d.base_speed * 100]

\* Animal.load_animal_state: the saved fields, speed and consumption back at
\* their base values; the target waits in _pending_target_id.
load_animal_state(a, d) ==
    [a EXCEPT !.energy = d.energy, !.age = d.age, !.base_speed = d.base_speed,
              !.direction = d.direction, !.state = d.state,
              !.speed = d.base_speed * 100,
              !.consumption = BaseConsumption(a.kind) * 100]

\* Entity.load_common
load_common(o, d) ==
    [o EXCEPT !.x = d.x, !.y = d.y, !.target_x = d.target_x, !.target_y = d.target_y]

\* Plant.from_dict, Fish.from_dict, Trout.from_dict, Shark.from_dict: the
\* class is the one of the list the record sits in; d.type is not read.
EntityFromDict(kind, d) ==
    IF kind = "Plant"
    THEN [load_common(NewPlant(d.id), d) EXCEPT !.growth = d.growth]
    ELSE load_animal_state(load_common(NewAnimal(kind, d.id, d.x, d.y), d), d)

\* A faulty resolution that takes the saved id as it is.
KeepPending(tid, ids) == tid

\* "if isinstance(tid, int): a.target_entity = id_map.get(tid)"
ResolveTarget(tid, ids) == IF tid # 0 /\ tid \in ids THEN tid ELSE 0

\* The keys of id_map.
IdsOf(data) ==
    {data.plants[k].id : k \in DOMAIN data.plants}
    \cup {data.fish[k].id : k \in DOMAIN data.fish}
    \cup {data.trout[k].id : k \in DOMAIN data.trout}
    \cup {data.sharks[k].id : k \in DOMAIN data.sharks}

\* One "for d in data.get(<list>, [])" loop with the target references that
\* the last loop of load_from_dict rebuilds.
LoadList(kind, dicts, ids) ==
    SubSeq([k \in 1..Len(dicts) |->
               IF kind = "Plant" THEN EntityFromDict(kind, dicts[k])
               ELSE [EntityFromDict(kind, dicts[k])
                        EXCEPT !.target_entity = ResolveTarget(dicts[k].target_id, ids)]],
           1, Len(dicts))

\* What load_from_dict is compared with: the ecosystem that was saved.
Origin ==
    [plants |-> plants, fish |-> fish, trout |-> trout, sharks |-> sharks,
     paused |-> paused, turn_count |-> turn_count,
     next_entity_id |-> next_entity_id, time_system |-> time_system,
     detached |-> detached]

\* Ecosystem.load_from_dict(data).  No statement of it raises on a record.
EcoLoadFromDict(data) ==
    /\ plants' = LoadList("Plant", data.plants, IdsOf(data))
    /\ fish' = LoadList("Fish", data.fish, IdsOf(data))
    /\ trout' = LoadList("Trout", data.trout, IdsOf(data))
    /\ sharks' = LoadList("Shark", data.sharks, IdsOf(data))
    /\ events' = <<>>
    /\ paused' = data.paused
    /\ turn_count' = data.turn_count
    /\ next_entity_id' = data.next_entity_id
    /\ time_system' = TimeFromDict(data.time_system)
    /\ detached' = {}
    /\ decisions' = <<>>
    /\ eaten' = <<>>
    /\ last_call' = [op |-> "load_from_dict", data |-> data, origin |-> Origin,
                     raised |-> FALSE]

\* load_from_dict(to_dict())
RoundTrip ==
    /\ last_call.op # "load_from_dict"
    /\ EcoLoadFromDict(EcoToDict)
    /\ UNCHANGED ctlVars
    /\ UNCHANGED otherVars

\* A saved dict whose first record of one list carries a type tag that no
\* class has.
Tampered(data, key) ==
    [data EXCEPT ![key] = [data[key] EXCEPT ![1] = [data[key][1] EXCEPT !.type = "Whale"]]]

LoadTampered ==
    \E key \in {"plants", "fish", "trout", "sharks"} :
        /\ last_call.op # "load_from_dict"
        /\ EcoToDict[key] # <<>>
        /\ EcoLoadFromDict(Tampered(EcoToDict, key))
        /\ UNCHANGED ctlVars
        /\ UNCHANGED otherVars

\* update() and set_paused() of the ecosystem that is saved; the fresh
\* ecosystem that received a load is inspected, not run.
SaveUpdate ==
    /\ last_call.op # "load_from_dict"
    /\ Update

SavePause ==
    /\ last_call.op # "load_from_dict"
    /\ SetPaused

NextSave == Initialize \/ SaveUpdate \/ SavePause \/ RoundTrip \/ LoadTampered

SpecSave == Init /\ [][NextSave]_vars

(***************************************************************************)
(* GameController.  run() is a loop of frames: it reads the clock          *)
(* (ticks, milliseconds), computes delta, handles one event of the view    *)
(* (pc = "events") and then calls update(delta) (pc = "update").           *)
(* turn_boundary records whether the last update(delta) took its           *)
(* "now >= self.next_turn_time" branch.                                    *)
(***************************************************************************)
\* The frames of a run that the model follows, counted in the shortest frame.
MaxFrames == 6

FrameMs == {500, 1000}

\* view.get_configuration(): the buttons keep each count in 0..max.
ViewScenarios ==
    {sc \in Scenarios :
        \A key \in DOMAIN sc.config :
            /\ sc.config[key] >= 0
            /\ sc.config[key] <= POPULATION_LIMITS[key].max}

\* The name typed for a new save.
ViewNames == {"a"}

\* The top of one iteration of run(), up to the event of handle_events,
\* while the clock is within limit.
LoopTopWithin(ms, limit) ==
    /\ pc = "events"
    /\ UNCHANGED ecosistema
    /\ ticks + ms <= limit
    /\ ticks' = ticks + ms
    /\ delta' = ms
    /\ pc' = "update"
    /\ UNCHANGED turn_boundary

LoopTop(ms) == LoopTopWithin(ms, MaxFrames * 500)

\* _build_meta_for_save, without the summary text and the view's
\* configuration.
BuildMeta ==
    [cycle |-> get_statistics.turn,
     entities_total |-> get_statistics.plants + get_statistics.fish
                        + get_statistics.trout + get_statistics.sharks,
     counts |-> [plants |-> get_statistics.plants, fish |-> get_statistics.fish,
                 trout |-> get_statistics.trout, sharks |-> get_statistics.sharks]]

\* _build_state_for_save, without the view's part and the random state.
BuildState ==
    [controller |-> [simulation_running |-> simulation_running,
                     simulation_paused |-> simulation_paused],
     ecosystem |-> EcoToDict]

\* handle_events with no event of the view.
NoEventBody ==
    /\ UNCHANGED ecoVars
    /\ UNCHANGED <<last_call, simulation_running, simulation_paused,
                   next_turn_time, current_save_id, loaded_from_save>>
    /\ UNCHANGED saveVars

NoEvent == \E ms \in FrameMs : LoopTop(ms) /\ NoEventBody

\* ui_create_save: the new save is written and becomes the current one.
UiCreateSaveBody(name) ==
    /\ saves' = SaveFiles(saves, ticks', name, BuildMeta, BuildState)
    /\ current_save_id' = MakeSaveId(ticks', name)
    /\ loaded_from_save' = FALSE
    /\ UNCHANGED ecoVars
    /\ UNCHANGED <<last_call, simulation_running, simulation_paused, next_turn_time>>
    /\ UNCHANGED <<auto_save_enabled, auto_save_interval_days,
                   last_auto_saved_day, auto_log>>

UiCreateSave ==
    \E ms \in FrameMs : \E name \in ViewNames : LoopTop(ms) /\ UiCreateSaveBody(name)

\* start_simulation with the configurations scs of the view; after
\* initialize, set_paused(False) changes nothing.  With auto-save enabled the
\* day of the ecosystem becomes the reference day.
StartSimulationBody(scs) ==
    /\ IF simulation_running \/ current_save_id = 0
       THEN /\ UNCHANGED ecoVars
            /\ UNCHANGED <<last_call, simulation_running, simulation_paused,
                           next_turn_time>>
            /\ UNCHANGED <<last_auto_saved_day, auto_log>>
       ELSE /\ IF ~loaded_from_save
               THEN /\ \E sc \in scs : EcoInitialize(sc.config, sc.points)
                    /\ auto_log' = [auto_log EXCEPT !.reset = TRUE]
               ELSE /\ EcoSetPaused(FALSE)
                    /\ UNCHANGED auto_log
            /\ simulation_running' = TRUE
            /\ simulation_paused' = FALSE
            /\ next_turn_time' = ticks' + TURN_DURATION_MS
            /\ last_auto_saved_day' = IF auto_save_enabled THEN time_system'.day
                                      ELSE last_auto_saved_day
    /\ UNCHANGED <<current_save_id, loaded_from_save>>
    /\ UNCHANGED <<saves, auto_save_enabled, auto_save_interval_days>>

StartSimulation == \E ms \in FrameMs : LoopTop(ms) /\ StartSimulationBody(ViewScenarios)

StopSimulationBody ==
    /\ IF ~simulation_running
       THEN /\ UNCHANGED ecoVars
            /\ UNCHANGED <<last_call, simulation_running, simulation_paused>>
       ELSE /\ simulation_running' = FALSE
            /\ simulation_paused' = FALSE
            /\ EcoSetPaused(TRUE)
    /\ UNCHANGED <<next_turn_time, current_save_id, loaded_from_save>>
    /\ UNCHANGED saveVars

StopSimulation == \E ms \in FrameMs : LoopTop(ms) /\ StopSimulationBody

TogglePauseBody ==
    /\ IF ~simulation_running
       THEN /\ UNCHANGED ecoVars
            /\ UNCHANGED <<last_call, simulation_running, simulation_paused>>
       ELSE /\ simulation_paused' = ~simulation_paused
            /\ EcoSetPaused(~simulation_paused)
            /\ UNCHANGED simulation_running
    /\ UNCHANGED <<next_turn_time, current_save_id, loaded_from_save>>
    /\ UNCHANGED saveVars

TogglePause == \E ms \in FrameMs : LoopTop(ms) /\ TogglePauseBody

\* The event "auto_save_toggle": enabling takes the current day as the
\* reference, disabling forgets it.
AutoSaveToggleBody(enabled) ==
    /\ auto_save_enabled' = enabled
    /\ last_auto_saved_day' = IF enabled THEN get_statistics.day ELSE 0
    /\ UNCHANGED ecoVars
    /\ UNCHANGED <<last_call, simulation_running, simulation_paused,
                   next_turn_time, current_save_id, loaded_from_save>>
    /\ UNCHANGED <<saves, auto_save_interval_days, auto_log>>

\* The event "auto_save_update_interval": days = max(1, days).
AutoSaveIntervalBody(days) ==
    /\ auto_save_interval_days' = Max(1, days)
    /\ UNCHANGED ecoVars
    /\ UNCHANGED <<last_call, simulation_running, simulation_paused,
                   next_turn_time, current_save_id, loaded_from_save>>
    /\ UNCHANGED <<saves, auto_save_enabled, last_auto_saved_day, auto_log>>

\* Whether update() finds the turn over: "now >= self.next_turn_time".
TurnOver == simulation_running /\ ~simulation_paused /\ ticks >= next_turn_time

\* A faulty test that saves as soon as the day has changed.
AutoSaveDueNextDay(current_day, last_day, interval) == current_day - last_day >= 1

\* "current_day - self._last_auto_saved_day >= self.auto_save_interval_days"
AutoSaveDue(current_day, last_day, interval) == current_day - last_day >= interval

\* What one call of _maybe_auto_save read and did: wrote is whether overwrite
\* ran to its end, last and last_after are _last_auto_saved_day before and
\* after the call, prev_write is the day of the auto-save before this call
\* (0: none), was_reset whether initialize() restarted the clock since then.
AutoLog(wrote, current_day, last_after) ==
    [called |-> TRUE, wrote |-> wrote, day |-> current_day,
     last |-> last_auto_saved_day, last_after |-> last_after,
     interval |-> auto_save_interval_days, enabled |-> auto_save_enabled,
     running |-> simulation_running, paused |-> simulation_paused,
     save_id |-> current_save_id,
     prev_write |-> IF auto_log.wrote THEN auto_log.day ELSE auto_log.prev_write,
     was_reset |-> auto_log.reset,
     reset |-> IF wrote THEN FALSE ELSE auto_log.reset]

\* _maybe_auto_save at the end of update(): the ecosystem it reads is the one
\* that ecosystem.update left (primed).  An exception of overwrite is caught
\* and leaves _last_auto_saved_day as it was.
MaybeAutoSave ==
    /\ IF ~auto_save_enabled \/ ~simulation_running \/ simulation_paused
          \/ current_save_id = 0
       THEN /\ UNCHANGED <<saves, last_auto_saved_day>>
            /\ auto_log' = AutoLog(FALSE, get_statistics'.day, last_auto_saved_day)
       ELSE IF last_auto_saved_day = 0
       THEN /\ last_auto_saved_day' = get_statistics'.day
            /\ UNCHANGED saves
            /\ auto_log' = AutoLog(FALSE, get_statistics'.day, get_statistics'.day)
       ELSE IF AutoSaveDue(get_statistics'.day, last_auto_saved_day,
                           auto_save_interval_days)
       THEN /\ saves' = Overwrite(saves, current_save_id, BuildMeta', BuildState',
                                  ticks).files
            /\ last_auto_saved_day' =
                   IF current_save_id \in DOMAIN saves THEN get_statistics'.day
                   ELSE last_auto_saved_day
            /\ auto_log' = AutoLog(current_save_id \in DOMAIN saves,
                                   get_statistics'.day, last_auto_saved_day')
       ELSE /\ UNCHANGED <<saves, last_auto_saved_day>>
            /\ auto_log' = AutoLog(FALSE, get_statistics'.day, last_auto_saved_day)
    /\ UNCHANGED <<auto_save_enabled, auto_save_interval_days>>

\* GameController.update(delta_time); delta is in milliseconds.
CtlUpdate ==
    /\ pc = "update"
    /\ UNCHANGED ecosistema
    /\ pc' = "events"
    /\ turn_boundary' = TurnOver
    /\ next_turn_time' = IF TurnOver THEN ticks + TURN_DURATION_MS ELSE next_turn_time
    /\ UNCHANGED <<simulation_running, simulation_paused, ticks, delta,
                   current_save_id, loaded_from_save>>
    /\ EcoUpdate(delta \div 100)
    /\ MaybeAutoSave

NextCtl ==
    \/ NoEvent
    \/ UiCreateSave
    \/ StartSimulation
    \/ StopSimulation
    \/ TogglePause
    \/ CtlUpdate

SpecCtl == Init /\ [][NextCtl]_vars

(***************************************************************************)
(* GameController with auto-save: frames of one day of the clock each, an  *)
(* ecosystem without entities, and the auto-save events of the view.       *)
(***************************************************************************)
MaxAutoFrames == 6

\* One frame of DAY_CYCLE_TURNS turns: update(delta) advances the clock by
\* delta * 10 turns, delta in seconds.
AutoFrameMs == DAY_CYCLE_TURNS * 100

AutoIntervals == {0, 1, 2}

EmptyScenario == [config |-> Config(0, 0, 0, 0), points |-> <<<<0, 0>>>>]

AutoTop == LoopTopWithin(AutoFrameMs, MaxAutoFrames * AutoFrameMs)

AutoNoEvent == AutoTop /\ NoEventBody

AutoCreateSave == \E name \in ViewNames : AutoTop /\ UiCreateSaveBody(name)

AutoStart == AutoTop /\ StartSimulationBody({EmptyScenario})

AutoStop == AutoTop /\ StopSimulationBody

AutoPause == AutoTop /\ TogglePauseBody

AutoSaveToggle == \E enabled \in BOOLEAN : AutoTop /\ AutoSaveToggleBody(enabled)

AutoSaveInterval == \E days \in AutoIntervals : AutoTop /\ AutoSaveIntervalBody(days)

NextAuto ==
    \/ AutoNoEvent
    \/ AutoCreateSave
    \/ AutoStart
    \/ AutoStop
    \/ AutoPause
    \/ AutoSaveToggle
    \/ AutoSaveInterval
    \/ CtlUpdate

SpecAuto == Init /\ [][NextAuto]_vars

(***************************************************************************)
(* Ecosystem.get_nearby_entities as a function of its arguments: the fish  *)
(* list holds the entity_list, drawn from the lists of at most MaxNear     *)
(* fish on the points of NearPoints; the entity is a member of the list or *)
(* an entity outside it.                                                   *)
(***************************************************************************)
MaxNear == 4

\* Points (pixels) at distances 0, 5, 5, 6 and 10 from the origin.
NearPoints == {<<0, 0>>, <<3, 4>>, <<4, 3>>, <<0, 6>>, <<6, 8>>}

NearRadii == {5, 6}

NearLists ==
    UNION {[1..n -> NearPoints] : n \in 1..MaxNear}

NearList(pts) ==
    SubSeq([k \in 1..Len(pts) |-> NewAnimal("Fish", k, Px(pts[k][1]), Px(pts[k][2]))],
           1, Len(pts))

\* An entity that is in no list, at the origin.
Outsider == NewAnimal("Trout", MaxNear + 1, 0, 0)

InitNear ==
    /\ \E pts \in NearLists :
          /\ fish = NearList(pts)
          /\ plants = <<>> /\ trout = <<>> /\ sharks = <<>>
    /\ InitRest
    /\ InitSaves
    /\ ecosistema = NewEcosistema

NearFrame ==
    /\ UNCHANGED <<plants, fish, trout, sharks, time_system, events, turn_count,
                   paused, next_entity_id, detached, decisions, eaten>>
    /\ UNCHANGED ctlVars
    /\ UNCHANGED otherVars

\* get_nearby_entities(entity, radius, self.fish) for a fish of the list.
NearMember ==
    \E i \in DOMAIN fish : \E radius \in NearRadii :
        /\ last_call' = [op |-> "get_nearby_entities", entity |-> fish[i],
                         radius |-> radius,
                         result |-> get_nearby_entities(fish[i], radius, fish)]
        /\ NearFrame

\* get_nearby_entities(entity, radius, self.fish) for an entity of another list.
NearOutsider ==
    \E radius \in NearRadii :
        /\ last_call' = [op |-> "get_nearby_entities", entity |-> Outsider,
                         radius |-> radius,
                         result |-> get_nearby_entities(Outsider, radius, fish)]
        /\ NearFrame

NextNear == NearMember \/ NearOutsider

SpecNear == InitNear /\ [][NextNear]_vars

(***************************************************************************)
(* Fish.decide_action on its own: one fish and up to MaxFleeTrout trout    *)
(* and MaxFleeSharks sharks at drawn points.                               *)
(***************************************************************************)
MaxFleeTrout == 2
MaxFleeSharks == 1

\* The fish stands at (300, 300).  Points (pixels) at distances 0, 60, 60,
\* 100, 150 and 151 from it.
FleePoints == {<<300, 300>>, <<360, 300>>, <<240, 300>>, <<300, 400>>, <<390, 420>>,
               <<300, 451>>}

FleeLists(n) == UNION {[1..k -> FleePoints] : k \in 0..n}

FleeList(kind, pts, first) ==
    SubSeq([k \in 1..Len(pts) |->
                NewAnimal(kind, first + k, Px(pts[k][1]), Px(pts[k][2]))],
           1, Len(pts))

InitFlee ==
    /\ fish = <<NewAnimal("Fish", 1, Px(300), Px(300))>>
    /\ \E pts \in FleeLists(MaxFleeTrout) : trout = FleeList("Trout", pts, 1)
    /\ \E pts \in FleeLists(MaxFleeSharks) :
          sharks = FleeList("Shark", pts, 1 + MaxFleeTrout)
    /\ plants = <<>>
    /\ InitRest
    /\ InitSaves
    /\ ecosistema = NewEcosistema

\* fish.decide_action(ecosystem) for the fish of the list.
FleeDecide ==
    /\ decisions = <<>>
    /\ \E w \in WanderDraws :
          LET d == FishDecide([plants |-> plants, fish |-> fish, trout |-> trout,
                               sharks |-> sharks], fish[1], [w |-> w])
          IN /\ fish' = <<d.a>>
             /\ decisions' = <<d.dec>>
    /\ last_call' = [op |-> "decide_action"]
    /\ UNCHANGED <<plants, trout, sharks, time_system, events, turn_count,
                   paused, next_entity_id, detached, eaten>>
    /\ UNCHANGED ctlVars
    /\ UNCHANGED otherVars

NextFlee == FleeDecide

SpecFlee == InitFlee /\ [][NextFlee]_vars

(***************************************************************************)
(* logic.Ecosistema._balancear_poblaciones.  The members of a list are     *)
(* serial numbers (0 for one made by the factory in this call).  Of        *)
(* random.shuffle the model keeps three outcomes.                          *)
(***************************************************************************)
POBLACION_LIMITES ==
    [plantas |-> [min |-> 20, max |-> 70],
     peces |-> [min |-> 12, max |-> 40],
     truchas |-> [min |-> 5, max |-> 18],
     tiburones |-> [min |-> 2, max |-> 10]]

Especies == <<"plantas", "peces", "truchas", "tiburones">>

\* The icono argument of each _ajustar_especie call ("" for None).
Icono(atributo) ==
    CASE atributo = "plantas" -> "" [] atributo = "peces" -> "pez"
      [] atributo = "truchas" -> "trucha" [] atributo = "tiburones" -> "tiburon"

Shuffles == {"same", "reversed", "rotated"}

\* random.shuffle(lista)
Shuffle(lista, sh) ==
    CASE sh = "same" -> lista
      [] sh = "reversed" -> SubSeq([k \in 1..Len(lista) |-> lista[Len(lista) + 1 - k]],
                                  1, Len(lista))
      [] sh = "rotated" -> IF lista = <<>> THEN lista
                           ELSE Append(Tail(lista), Head(lista))

\* A faulty deficit that stops one short of the minimum.
DeficitShort(lista, minimo) == minimo - Len(lista) - 1

\* deficit = minimo - len(lista)
Deficit(lista, minimo) == minimo - Len(lista)

\* "if exceso > 0: random.shuffle(lista); for _ in range(exceso): lista.pop()"
Recortar(lista, maximo, sh) ==
    IF Len(lista) - maximo > 0
    THEN SubSeq(Shuffle(lista, sh), 1, Len(lista) - (Len(lista) - maximo))
    ELSE lista

\* "for _ in range(deficit)": the deficit objects of the factory.
Nuevos(deficit, o) == SubSeq([k \in 1..deficit |-> o], 1, deficit)

\* "if deficit > 0: ... lista.append(nuevo)" with the 'nacer' events.
Reforzar(e, atributo, lista, deficit, icono) ==
    IF deficit > 0
    THEN [e EXCEPT ![atributo] = lista \o Nuevos(deficit, 0),
                   !.eventos_visuales =
                       IF icono = "" THEN e.eventos_visuales
                       ELSE e.eventos_visuales \o Nuevos(deficit, <<"nacer", icono>>)]
    ELSE [e EXCEPT ![atributo] = lista]

\* _ajustar_especie(atributo, factory, minimo, maximo, icono) on the object e.
AjustarEspecie(e, atributo, minimo, maximo, icono, sh) ==
    Reforzar(e, atributo, Recortar(e[atributo], maximo, sh),
             Deficit(Recortar(e[atributo], maximo, sh), minimo), icono)

RECURSIVE BalancearDesde(_, _, _)
BalancearDesde(e, k, sh) ==
    IF k > Len(Especies) THEN e
    ELSE BalancearDesde(AjustarEspecie(e, Especies[k],
                                       POBLACION_LIMITES[Especies[k]].min,
                                       POBLACION_LIMITES[Especies[k]].max,
                                       Icono(Especies[k]), sh),
                        k + 1, sh)

balancear_poblaciones(e, sh) == BalancearDesde(e, 1, sh)

\* The lengths of the four lists.
Tamanos(e) == [k \in {"plantas", "peces", "truchas", "tiburones"} |-> Len(e[k])]

MaxExcess == 2

\* The list lengths a call starts from: empty, around the minimum, around
\* the maximum and up to MaxExcess above it.
Levels(atributo) ==
    {0, POBLACION_LIMITES[atributo].min - 1, POBLACION_LIMITES[atributo].min,
     POBLACION_LIMITES[atributo].max}
    \cup {POBLACION_LIMITES[atributo].max + k : k \in 1..MaxExcess}

Serials(n) == SubSeq([k \in 1..n |-> k], 1, n)

InitLogic ==
    /\ InitGame
    /\ \E p \in Levels("plantas"), f \in Levels("peces"),
          t \in Levels("truchas"), s \in Levels("tiburones") :
           ecosistema = [plantas |-> Serials(p), peces |-> Serials(f),
                         truchas |-> Serials(t), tiburones |-> Serials(s),
                         eventos_visuales |-> <<>>]

Balancear ==
    \E sh \in Shuffles :
        /\ last_call.op = "init"
        /\ ecosistema' = balancear_poblaciones(ecosistema, sh)
        /\ last_call' = [op |-> "balancear", before |-> Tamanos(ecosistema)]
        /\ UNCHANGED ecoVars
        /\ UNCHANGED ctlVars
        /\ UNCHANGED saveVars

NextLogic == Balancear

SpecLogic == InitLogic /\ [][NextLogic]_vars

(***************************************************************************)
(* logic.py: the animals of Ecosistema and simular_turno_ia.  An animal is *)
(* a record: clase, id (the identity of the object), energia in tenths,    *)
(* edad, tiempo_vida, x and y (rect.topleft), target_x, target_y,          *)
(* presa_objetivo (an id, 0 for None) and estado.  A plant has clase, id,  *)
(* energia, x and y.  The floats pos_x, pos_y, target_x, target_y and the  *)
(* speeds are in hundredths of a pixel;  fase is the fase of the           *)
(* estado_tiempo the animal keeps ("" for None).                           *)
(***************************************************************************)
WIDTH == 1024
HEIGHT == 768
CICLO_DIA_TURNOS == 32

\* TEXTURAS_TAM / the ancho and alto of the constructors (all are squares).
Lado(clase) ==
    CASE clase = "Pez" -> 20 [] clase = "Trucha" -> 35 [] clase = "Tiburon" -> 45
      [] clase = "Planta" -> 14

\* consumo_base, in tenths.
ConsumoBase(clase) ==
    CASE clase = "Pez" -> 10 [] clase = "Trucha" -> 15 [] clase = "Tiburon" -> 8

Cent(n) == 100 * n

\* velocidad_frame as the constructor draws it, one value of the uniform
\* range of each class.
Velocidad(clase) ==
    CASE clase = "Pez" -> 150 [] clase = "Trucha" -> 100 [] clase = "Tiburon" -> 80

CentroX(o) == o.x + Lado(o.clase) \div 2
CentroY(o) == o.y + Lado(o.clase) \div 2

\* a.rect.colliderect(b.rect)
Colisiona(a, b) ==
    /\ a.x < b.x + Lado(b.clase) /\ b.x < a.x + Lado(a.clase)
    /\ a.y < b.y + Lado(b.clase) /\ b.y < a.y + Lado(a.clase)

DistanciaCuadrada(a, b) ==
    (CentroX(a) - CentroX(b)) * (CentroX(a) - CentroX(b))
    + (CentroY(a) - CentroY(b)) * (CentroY(a) - CentroY(b))

\* _fase_por_progreso(ciclo_turno / CICLO_DIA_TURNOS), with FRACCION_AMANECER
\* 0.18 and FRACCION_ATARDECER 0.68.
FasePorProgreso(ciclo_turno) ==
    IF ciclo_turno * 100 < 18 * CICLO_DIA_TURNOS THEN "amanecer"
    ELSE IF ciclo_turno * 2 < CICLO_DIA_TURNOS THEN "dia"
    ELSE IF ciclo_turno * 100 < 68 * CICLO_DIA_TURNOS THEN "atardecer"
    ELSE "noche"

\* The estado_tiempo of a turn: turno, dia, ciclo (progreso_dia times
\* CICLO_DIA_TURNOS), fase and es_noche.  factor_luz is only drawn.
EstadoTiempo(turno_global) ==
    [turno |-> turno_global,
     dia |-> (turno_global \div CICLO_DIA_TURNOS) + 1,
     ciclo |-> turno_global % CICLO_DIA_TURNOS,
     fase |-> FasePorProgreso(turno_global % CICLO_DIA_TURNOS),
     es_noche |-> FasePorProgreso(turno_global % CICLO_DIA_TURNOS) = "noche"]

\* The constructors: Pez(nombre, energia, tiempo_vida) and so on, at the
\* point the constructor draws.
NuevoAnimal(clase, id, energia, tiempo_vida, p) ==
    [clase |-> clase, id |-> id, energia |-> energia * 10, edad |-> 0,
     tiempo_vida |-> tiempo_vida, x |-> p[1], y |-> p[2],
     pos_x |-> Cent(p[1]), pos_y |-> Cent(p[2]),
     target_x |-> Cent(p[1]), target_y |-> Cent(p[2]),
     velocidad_frame |-> Velocidad(clase), velocidad_base |-> Velocidad(clase),
     direccion_h |-> 1, fase |-> "", presa_objetivo |-> 0,
     estado |-> IF clase = "Tiburon" THEN "vagando" ELSE ""]

NuevaPlanta(id, p) == [clase |-> "Planta", id |-> id, energia |-> 200, x |-> p[1], y |-> p[2]]

\* ha_muerto()
ha_muerto(a) == a.edad >= a.tiempo_vida \/ a.energia <= 0

\* "max(0, min(target, WIDTH - rect.width))" for both coordinates.
LimitarObjetivo(a) ==
    [a EXCEPT !.target_x = Max(0, Min(a.target_x, Cent(WIDTH - Lado(a.clase)))),
              !.target_y = Max(0, Min(a.target_y, Cent(HEIGHT - Lado(a.clase))))]

\* "for o in lista: if distancia < minima: minima = distancia; cercano = o":
\* the first of the nearest objects under the limit (limite < 0: no limit),
\* 0 for None.
RECURSIVE MasCercano(_, _, _, _, _)
MasCercano(a, lista, k, minima, cercano) ==
    IF k > Len(lista) THEN cercano
    ELSE IF minima < 0 \/ DistanciaCuadrada(a, lista[k]) < minima
    THEN MasCercano(a, lista, k + 1, DistanciaCuadrada(a, lista[k]), lista[k].id)
    ELSE MasCercano(a, lista, k + 1, minima, cercano)

PorId(lista, id) == lista[CHOOSE k \in 1..Len(lista) : lista[k].id = id]

\* The flight of a fish or a trout from the predator dep.
Huir(a, dep) ==
    [a EXCEPT !.target_x = Cent(IF CentroX(a) < CentroX(dep) THEN a.x - 70 ELSE a.x + 70),
              !.target_y = Cent(IF CentroY(a) < CentroY(dep) THEN a.y - 70 ELSE a.y + 70)]

\* Pez.decidir_objetivo;  r.dx is the randint(-30, 30) of the night drift.
PezDecidir(a, e, et, r) ==
    LET depredadores == e.truchas \o e.tiburones
        depredador_cercano == MasCercano(a, depredadores, 1, 150 * 150, 0)
        rango == IF et.es_noche THEN 80 * 80 ELSE 100 * 100
        planta_cercana == IF a.energia < 700
                          THEN MasCercano(a, e.plantas, 1, rango, 0) ELSE 0
        a1 == IF depredador_cercano # 0
              THEN Huir(a, PorId(depredadores, depredador_cercano))
              ELSE IF et.es_noche /\ a.energia > 400
              THEN [a EXCEPT !.target_x = Cent(a.x + r.dx),
                             !.target_y = Cent(Min(HEIGHT - Lado(a.clase), a.y + 60))]
              ELSE IF (a.energia < 700 \/ (et.es_noche /\ a.energia < 400))
                      /\ planta_cercana # 0
              THEN [a EXCEPT !.target_x = Cent(CentroX(PorId(e.plantas, planta_cercana))),
                             !.target_y = Cent(CentroY(PorId(e.plantas, planta_cercana)))]
              ELSE a
    IN LimitarObjetivo(a1)

\* hambre_threshold, in tenths.
HambreThreshold(clase) == IF clase = "Trucha" THEN 800 ELSE 1200

\* Carnivoro.decidir_objetivo on the list of its presa_key;  r.busca is the
\* "random.random() < 0.35" of the night.
CarnivoroDecidir(a, presas, et, r) ==
    LET hambre_tolerada == IF et.es_noche THEN (HambreThreshold(a.clase) * 12) \div 10
                           ELSE IF et.fase = "dia"
                           THEN (HambreThreshold(a.clase) * 9) \div 10
                           ELSE HambreThreshold(a.clase)
        busca_presa == a.energia < hambre_tolerada \/ (et.es_noche /\ r.busca)
        presa_cercana == IF busca_presa THEN MasCercano(a, presas, 1, 0 - 1, 0) ELSE 0
        a1 == IF presa_cercana # 0
              THEN [a EXCEPT !.presa_objetivo = presa_cercana,
                             !.target_x = Cent(CentroX(PorId(presas, presa_cercana))),
                             !.target_y = Cent(CentroY(PorId(presas, presa_cercana)))]
              ELSE [a EXCEPT !.presa_objetivo = 0]
    IN LimitarObjetivo(a1)

\* Trucha.decidir_objetivo
TruchaDecidir(a, e, et, r) ==
    LET depredador_cercano == MasCercano(a, e.tiburones, 1, 150 * 150, 0)
        a1 == CarnivoroDecidir(a, e.peces, et, r)
        a2 == IF depredador_cercano # 0
              THEN Huir(a, PorId(e.tiburones, depredador_cercano))
              ELSE IF a1.presa_objetivo = 0 /\ et.es_noche
              THEN [a1 EXCEPT !.target_y = Cent(Min(HEIGHT - Lado(a.clase), a.y + 30))]
              ELSE IF a1.presa_objetivo = 0 /\ et.fase = "amanecer"
              THEN [a1 EXCEPT !.target_y = Cent(Max(0, a.y - 50))]
              ELSE a1
    IN LimitarObjetivo(a2)

\* Tiburon.decidir_objetivo: the trout first, the fish as presa_secundaria.
TiburonDecidir(a, e, et, r) ==
    LET a1 == CarnivoroDecidir(a, e.truchas, et, r)
        presa_alt == MasCercano(a, e.peces, 1, 0 - 1, 0)
        a2 == IF a1.presa_objetivo = 0 /\ presa_alt # 0
              THEN [a1 EXCEPT !.presa_objetivo = presa_alt,
                              !.target_x = Cent(CentroX(PorId(e.peces, presa_alt))),
                              !.target_y = Cent(CentroY(PorId(e.peces, presa_alt)))]
              ELSE a1
    IN [a2 EXCEPT !.estado = IF a2.presa_objetivo # 0 THEN "cazando" ELSE "vagando"]

\* update_decision_turno: the cost of the turn, the age, and the decision.
update_decision_turno(a, e, et, r) ==
    LET a1 == [a EXCEPT !.energia = a.energia - ConsumoBase(a.clase),
                        !.edad = a.edad + 1, !.fase = et.fase]
    IN CASE a.clase = "Pez" -> PezDecidir(a1, e, et, r)
         [] a.clase = "Trucha" -> TruchaDecidir(a1, e, et, r)
         [] a.clase = "Tiburon" -> TiburonDecidir(a1, e, et, r)

(***************************************************************************)
(* Ecosistema.simular_turno_ia.  The running turn is a record t: the four  *)
(* lists and eventos_visuales, the locals of the method (muertos and crias *)
(* per class, plantas_comidas), the next object identity, and partos: for  *)
(* every offspring that reproducir returned, its parent and whether that   *)
(* parent was dead when update_decision_turno returned.                    *)
(***************************************************************************)
Atributo(clase) ==
    CASE clase = "Planta" -> "plantas" [] clase = "Pez" -> "peces"
      [] clase = "Trucha" -> "truchas" [] clase = "Tiburon" -> "tiburones"

Nombre(clase) ==
    CASE clase = "Pez" -> "pez" [] clase = "Trucha" -> "trucha"
      [] clase = "Tiburon" -> "tiburon"

Centro(o) == <<CentroX(o), CentroY(o)>>

EnLista(id, ids) == \E k \in 1..Len(ids) : ids[k] = id

\* comer(): the energy gained, in tenths.
EnergiaGanada(a, presa) ==
    CASE a.clase = "Pez" -> presa.energia
      [] a.clase = "Trucha" -> Max(350, (presa.energia \div 20) * 10)
      [] a.clase = "Tiburon" /\ presa.clase = "Trucha" ->
             Max(850, ((presa.energia * 7) \div 100) * 10)
      [] a.clase = "Tiburon" /\ presa.clase = "Pez" ->
             Max(400, ((presa.energia * 6) \div 100) * 10)

comer(a, presa) ==
    IF a.clase = "Tiburon"
    THEN [a EXCEPT !.energia = a.energia + EnergiaGanada(a, presa),
                   !.presa_objetivo = 0, !.estado = "vagando"]
    ELSE [a EXCEPT !.energia = a.energia + EnergiaGanada(a, presa)]

\* The first prey of the list that the animal overlaps and that is not yet
\* marked (0: none).
RECURSIVE PrimeraPresa(_, _, _, _)
PrimeraPresa(a, lista, marcadas, k) ==
    IF k > Len(lista) THEN 0
    ELSE IF Colisiona(a, lista[k]) /\ ~EnLista(lista[k].id, marcadas) THEN k
    ELSE PrimeraPresa(a, lista, marcadas, k + 1)

\* "for planta in self.plantas: ..." of the fish i.
ComerPlantaEn(t, i, a, k) ==
    IF k = 0 THEN t
    ELSE [t EXCEPT !.peces[i] = comer(a, t.plantas[k]),
                   !.eventos_visuales =
                       IF EnergiaGanada(a, t.plantas[k]) > 0
                       THEN Append(t.eventos_visuales,
                                   <<"comer_pez", Centro(a),
                                     EnergiaGanada(a, t.plantas[k])>>)
                       ELSE t.eventos_visuales,
                   !.plantas_comidas = Append(t.plantas_comidas, t.plantas[k].id)]

ComerPlanta(t, i) ==
    ComerPlantaEn(t, i, t.peces[i],
                  PrimeraPresa(t.peces[i], t.plantas, t.plantas_comidas, 1))

\* "for presa in self.<presas>: if presa not in muertos and colliderect: ..."
\* of the predator i of the class;  found tells whether the loop reached its
\* break.
CazarEn(t, clase, i, clase_presa, a, presas, k) ==
    IF k = 0 THEN [t |-> t, found |-> FALSE]
    ELSE [t |-> [t EXCEPT ![Atributo(clase)][i] = comer(a, presas[k]),
                          !.eventos_visuales =
                              (IF EnergiaGanada(a, presas[k]) > 0
                               THEN Append(t.eventos_visuales,
                                           <<"comer_depredador", Centro(a),
                                             EnergiaGanada(a, presas[k])>>)
                               ELSE t.eventos_visuales)
                              \o <<<<"morir", Centro(presas[k])>>>>,
                          !.muertos[clase_presa] =
                              Append(t.muertos[clase_presa], presas[k].id)],
          found |-> TRUE]

Cazar(t, clase, i, clase_presa) ==
    CazarEn(t, clase, i, clase_presa, t[Atributo(clase)][i], t[Atributo(clase_presa)],
            PrimeraPresa(t[Atributo(clase)][i], t[Atributo(clase_presa)],
                         t.muertos[clase_presa], 1))

\* The energy threshold, the least age, the cost and the offspring of
\* reproducir, per class.
EnergiaUmbral(clase, fase) ==
    LET alba == fase \in {"amanecer", "atardecer"}
    IN CASE clase = "Pez" -> IF alba THEN 600 ELSE 700
         [] clase = "Trucha" -> IF alba THEN 1100 ELSE 1200
         [] clase = "Tiburon" -> IF alba THEN 1500 ELSE 1700

EdadMinima(clase) ==
    CASE clase = "Pez" -> 3 [] clase = "Trucha" -> 6 [] clase = "Tiburon" -> 8

Coste(clase) ==
    CASE clase = "Pez" -> 500 [] clase = "Trucha" -> 700 [] clase = "Tiburon" -> 1000

Cria(clase, id, padre, p) ==
    LET c == CASE clase = "Pez" -> NuevoAnimal("Pez", id, 50, 20, p)
               [] clase = "Trucha" -> NuevoAnimal("Trucha", id, 100, 25, p)
               [] clase = "Tiburon" -> NuevoAnimal("Tiburon", id, 200, 30, p)
    IN [c EXCEPT !.x = padre.x, !.y = padre.y]

\* reproducir without its random.random() < prob.
PuedeReproducir(a, et) ==
    a.energia > EnergiaUmbral(a.clase, et.fase) /\ a.edad > EdadMinima(a.clase)

\* Whether reproducir returns an offspring;  r.rolls holds the animals whose
\* random.random() falls under prob.
Reproduce(a, et, r) == PuedeReproducir(a, et) /\ a.id \in r.rolls

\* "cria = a.reproducir(estado_tiempo); if cria and (len(lista) + len(nuevas)
\* < max): ..." of the animal i;  vivo tells whether it was alive when
\* update_decision_turno returned.
Reproducir(t, clase, i, et, r, vivo) ==
    LET a == t[Atributo(clase)][i]
        cabe == Len(t[Atributo(clase)]) + Len(t.crias[clase])
                    < POBLACION_LIMITES[Atributo(clase)].max
        cria == Cria(clase, t.next_id, a, r.spawn)
    IN IF ~Reproduce(a, et, r) THEN t
       ELSE LET t1 == [t EXCEPT ![Atributo(clase)][i].energia = a.energia - Coste(clase),
                                !.next_id = t.next_id + 1,
                                !.partos = Append(t.partos,
                                                  [padre |-> a.id, clase |-> clase,
                                                   vivo |-> vivo, cabe |-> cabe])]
            IN IF cabe
               THEN [t1 EXCEPT !.crias[clase] = Append(t.crias[clase], cria),
                               !.eventos_visuales =
                                   t.eventos_visuales
                                   \o <<<<"aparearse", Centro(a), Nombre(clase)>>,
                                        <<"nacer", Centro(cria), Nombre(clase)>>>>]
               ELSE t1

\* "if a.ha_muerto(): muertos.append(a); eventos.append(('morir', center))"
Morir(t, clase, i) ==
    LET a == t[Atributo(clase)][i]
    IN IF ha_muerto(a)
       THEN [t EXCEPT !.muertos[clase] = Append(t.muertos[clase], a.id),
                      !.eventos_visuales = Append(t.eventos_visuales,
                                                  <<"morir", Centro(a)>>)]
       ELSE t

\* One iteration of the loop of a class: decide, eat, reproduce, die.
\* The shark's two loops: the fish only when no trout was eaten (c is what
\* the loop over the trout left).
CazarSecundaria(t1, i, c) == IF c.found THEN c.t ELSE Cazar(t1, "Tiburon", i, "Pez").t

ComerDe(t1, clase, i) ==
    CASE clase = "Pez" -> ComerPlanta(t1, i)
      [] clase = "Trucha" -> Cazar(t1, "Trucha", i, "Pez").t
      [] clase = "Tiburon" -> CazarSecundaria(t1, i, Cazar(t1, "Tiburon", i, "Trucha"))

TurnoCon(t, clase, i, et, r, a1) ==
    Morir(Reproducir(ComerDe([t EXCEPT ![Atributo(clase)][i] = a1], clase, i),
                     clase, i, et, r, ~ha_muerto(a1)),
          clase, i)

TurnoDe(t, clase, i, et, r) ==
    TurnoCon(t, clase, i, et, r, update_decision_turno(t[Atributo(clase)][i], t, et, r))

RECURSIVE BucleDe(_, _, _, _, _)
BucleDe(t, clase, i, et, r) ==
    IF i > Len(t[Atributo(clase)]) THEN t
    ELSE BucleDe(TurnoDe(t, clase, i, et, r), clase, i + 1, et, r)

\* The lists without the dead and the eaten, extended with the offspring.
\* retirados keeps the objects that left the lists of the fish and the
\* trout while a shark of the list still holds them as presa_objetivo.
Limpiar(t) ==
    [t EXCEPT !.peces = SelectSeq(t.peces, LAMBDA o : ~EnLista(o.id, t.muertos["Pez"]))
                        \o t.crias["Pez"],
              !.truchas = SelectSeq(t.truchas,
                                    LAMBDA o : ~EnLista(o.id, t.muertos["Trucha"]))
                          \o t.crias["Trucha"],
              !.tiburones = SelectSeq(t.tiburones,
                                      LAMBDA o : ~EnLista(o.id, t.muertos["Tiburon"]))
                            \o t.crias["Tiburon"],
              !.plantas = SelectSeq(t.plantas,
                                    LAMBDA o : ~EnLista(o.id, t.plantas_comidas)),
              !.retirados =
                  {o \in Range(t.peces) \cup Range(t.truchas) :
                      /\ EnLista(o.id, t.muertos[o.clase])
                      /\ \E k \in 1..Len(t.tiburones) :
                             /\ ~EnLista(t.tiburones[k].id, t.muertos["Tiburon"])
                             /\ t.tiburones[k].presa_objetivo = o.id}]

\* The objects of the factories of _balancear_poblaciones, which the lists
\* hold as 0 after the entries they had before, and the events as
\* <<"nacer", icono>>: each one built by its constructor at the point drawn,
\* with the next identity.
Fabrica(clase, id, p) ==
    CASE clase = "Planta" -> NuevaPlanta(id, p)
      [] clase = "Pez" -> NuevoAnimal("Pez", id, 70, 120, p)
      [] clase = "Trucha" -> NuevoAnimal("Trucha", id, 120, 180, p)
      [] clase = "Tiburon" -> NuevoAnimal("Tiburon", id, 200, 30, p)

FabricarLista(lista, clase, antes, id, p) ==
    [lista |-> SubSeq([k \in 1..Len(lista) |->
                           IF k > antes THEN Fabrica(clase, id + (k - antes - 1), p)
                           ELSE lista[k]],
                      1, Len(lista)),
     next_id |-> id + Max(0, Len(lista) - antes)]

ClaseDe(icono) ==
    CASE icono = "pez" -> "Pez" [] icono = "trucha" -> "Trucha"
      [] icono = "tiburon" -> "Tiburon"

Fabricar(t, antes, p) ==
    LET pl == FabricarLista(t.plantas, "Planta", Len(antes.plantas), t.next_id, p)
        pe == FabricarLista(t.peces, "Pez", Len(antes.peces), pl.next_id, p)
        tr == FabricarLista(t.truchas, "Trucha", Len(antes.truchas), pe.next_id, p)
        ti == FabricarLista(t.tiburones, "Tiburon", Len(antes.tiburones), tr.next_id, p)
        ev == t.eventos_visuales
    IN [t EXCEPT !.plantas = pl.lista, !.peces = pe.lista, !.truchas = tr.lista,
                 !.tiburones = ti.lista, !.next_id = ti.next_id,
                 !.eventos_visuales =
                     SubSeq([k \in 1..Len(ev) |->
                                 IF Len(ev[k]) = 2 /\ ev[k][1] = "nacer"
                                 THEN <<"nacer",
                                        <<p[1] + Lado(ClaseDe(ev[k][2])) \div 2,
                                          p[2] + Lado(ClaseDe(ev[k][2])) \div 2>>,
                                        ev[k][2]>>
                                 ELSE ev[k]],
                            1, Len(ev))]

\* "if len(self.plantas) < max and random.random() < prob_regeneracion: ..."
Regenerar(t, r) ==
    IF Len(t.plantas) < POBLACION_LIMITES.plantas.max /\ r.regenera
    THEN [t EXCEPT !.plantas = Append(t.plantas, NuevaPlanta(t.next_id, r.spawn)),
                   !.next_id = t.next_id + 1]
    ELSE t

\* simular_turno_ia on the object e, with the draws r.
\* The turn as it starts: the clock advanced, the events and the locals empty.
EmpezarTurno(e) ==
    [plantas |-> e.plantas, peces |-> e.peces, truchas |-> e.truchas,
     tiburones |-> e.tiburones, eventos_visuales |-> <<>>,
     turno_global |-> e.turno_global + 1, next_id |-> e.next_id,
     muertos |-> [c \in {"Pez", "Trucha", "Tiburon"} |-> <<>>],
     crias |-> [c \in {"Pez", "Trucha", "Tiburon"} |-> <<>>],
     plantas_comidas |-> <<>>, partos |-> <<>>, retirados |-> {}]

\* The three loops, in the order of the code.
Bucles(t0, et, r) ==
    BucleDe(BucleDe(BucleDe(t0, "Pez", 1, et, r), "Trucha", 1, et, r),
            "Tiburon", 1, et, r)

\* _balancear_poblaciones on the cleaned lists.
Equilibrar(t, r) == Fabricar(balancear_poblaciones(t, r.sh), t, r.spawn)

\* The object as the turn leaves it (the locals are gone).
TerminarTurno(t5) ==
    [plantas |-> t5.plantas, peces |-> t5.peces, truchas |-> t5.truchas,
     tiburones |-> t5.tiburones, eventos_visuales |-> t5.eventos_visuales,
     turno_global |-> t5.turno_global, next_id |-> t5.next_id,
     partos |-> t5.partos, retirados |-> t5.retirados, rastreos |-> <<>>]

simular_turno_ia(e, r) ==
    TerminarTurno(
        Regenerar(Equilibrar(Limpiar(Bucles(EmpezarTurno(e),
                                            EstadoTiempo(e.turno_global + 1), r)), r),
                  r))

(***************************************************************************)
(* Turns of logic.Ecosistema.  The ecosystem starts as poblar_custom and   *)
(* the turns before leave it: the minimum of every species, the clock at   *)
(* some turn, and among the animals a fish, a trout and a shark with a     *)
(* history (age, energy paid and eaten) drawn from a few.                  *)
(***************************************************************************)
MaxTurnos == 2

\* Turns after which the next one falls in the night, the dawn, the day and
\* the dusk.
TurnosGlobales == {29, 36, 45, 50}

\* The points (rect.topleft) the constructors draw, object by object.
Trazados ==
    {<<<<100, 100>>, <<110, 100>>, <<400, 300>>, <<900, 700>>, <<130, 110>>>>,
     <<<<100, 100>>, <<600, 100>>, <<300, 500>>, <<900, 700>>>>}

\* A fish: new;  born as an offspring 19 turns ago, with three plants eaten;
\* five turns old with one plant eaten.
HistoriasPez ==
    {[edad |-> 0, energia |-> 700, tiempo_vida |-> 120],
     [edad |-> 19, energia |-> 910, tiempo_vida |-> 20],
     [edad |-> 5, energia |-> 850, tiempo_vida |-> 120]}

\* A trout: new;  ten turns old with one fish eaten.
HistoriasTrucha ==
    {[edad |-> 0, energia |-> 1200, tiempo_vida |-> 180],
     [edad |-> 10, energia |-> 1400, tiempo_vida |-> 180]}

\* A shark: new;  29 turns old, never fed.
HistoriasTiburon ==
    {[edad |-> 0, energia |-> 2000, tiempo_vida |-> 30],
     [edad |-> 29, energia |-> 1768, tiempo_vida |-> 30]}

ConHistoria(a, h) ==
    [a EXCEPT !.edad = h.edad, !.energia = h.energia, !.tiempo_vida = h.tiempo_vida]

\* n objects of a class with the identities first + 1 .. first + n.
Poblar(clase, n, first, trazado) ==
    SubSeq([k \in 1..n |-> Fabrica(clase, first + k, PointFor(trazado, first + k))],
           1, n)

InitDesde(trazados, turnos) ==
    /\ InitGame
    /\ \E trazado \in trazados, turno \in turnos, hp \in HistoriasPez,
          ht \in HistoriasTrucha, hs \in HistoriasTiburon :
          LET np == POBLACION_LIMITES.plantas.min
              nf == POBLACION_LIMITES.peces.min
              nt == POBLACION_LIMITES.truchas.min
              ns == POBLACION_LIMITES.tiburones.min
              peces == Poblar("Pez", nf, np, trazado)
              truchas == Poblar("Trucha", nt, np + nf, trazado)
              tiburones == Poblar("Tiburon", ns, np + nf + nt, trazado)
          IN ecosistema =
                 [plantas |-> Poblar("Planta", np, 0, trazado),
                  peces |-> [peces EXCEPT ![1] = ConHistoria(peces[1], hp)],
                  truchas |-> [truchas EXCEPT ![1] = ConHistoria(truchas[1], ht)],
                  tiburones |-> [tiburones EXCEPT ![1] = ConHistoria(tiburones[1], hs)],
                  eventos_visuales |-> <<>>, turno_global |-> turno,
                  next_id |-> np + nf + nt + ns + 1, partos |-> <<>>,
                  retirados |-> {}, rastreos |-> <<>>]

InitTurno == InitDesde(Trazados, TurnosGlobales)

\* The animals that can pass the age test of reproducir in the next turn.
PuedenTirar(e) ==
    {a.id : a \in {b \in Range(e.peces) \cup Range(e.truchas) \cup Range(e.tiburones) :
                      b.edad + 1 > EdadMinima(b.clase)}}

\* The draws of a turn: rolls, the animals whose random.random() of
\* reproducir falls under prob;  dx and busca, the draws of the night;  sh,
\* the shuffle of the balancing;  spawn, the point of the constructors;
\* regenera, the draw of the plant regeneration.
SorteosTurno(e) ==
    LET noche == EstadoTiempo(e.turno_global + 1).es_noche
    IN {[rolls |-> rolls, dx |-> dx, busca |-> busca, sh |-> "same", spawn |-> sp,
         regenera |-> rg] :
           rolls \in SUBSET PuedenTirar(e),
           dx \in IF noche THEN {0 - 30, 30} ELSE {0},
           busca \in IF noche THEN BOOLEAN ELSE {FALSE},
           sp \in {<<500, 400>>, <<105, 105>>},
           rg \in BOOLEAN}

SimularTurno ==
    /\ IF last_call.op = "init" THEN TRUE ELSE last_call.n < MaxTurnos
    /\ \E r \in SorteosTurno(ecosistema) :
          ecosistema' = simular_turno_ia(ecosistema, r)
    /\ last_call' = [op |-> "simular_turno_ia",
                     n |-> IF last_call.op = "init" THEN 1 ELSE last_call.n + 1]
    /\ UNCHANGED ecoVars
    /\ UNCHANGED ctlVars
    /\ UNCHANGED saveVars

NextTurno == SimularTurno

SpecTurno == InitTurno /\ [][NextTurno]_vars

(***************************************************************************)
(* logic.py: Ecosistema.actualizar_movimiento_frame, the frames between    *)
(* the turns.  rastreos records, for every shark that took its target from *)
(* its presa_objetivo in the last frame, the shark, the prey and whether   *)
(* the prey was in the lists of the trout and the fish.                    *)
(***************************************************************************)
MaxCuadros == 1

\* The (dx, dy) that the randint(-50, 50) of an arrived animal draw.
Vagabundeos == {<<0 - 50, 50>>, <<30, 0>>}

\* _limitar_posicion_a_pantalla: the floats clamped, the rect at int(pos).
LimitarPosicion(a) ==
    [a EXCEPT !.pos_x = Max(0, Min(a.pos_x, Cent(WIDTH - Lado(a.clase)))),
              !.pos_y = Max(0, Min(a.pos_y, Cent(HEIGHT - Lado(a.clase)))),
              !.x = Max(0, Min(a.pos_x, Cent(WIDTH - Lado(a.clase)))) \div 100,
              !.y = Max(0, Min(a.pos_y, Cent(HEIGHT - Lado(a.clase)))) \div 100]

\* "if dist_x < 5 and dist_y < 5: target = pos + randint(-50, 50); ..."
Vagar(a, w) ==
    IF Abs(a.target_x - a.pos_x) < 500 /\ Abs(a.target_y - a.pos_y) < 500
    THEN LimitarObjetivo([a EXCEPT !.target_x = a.pos_x + Cent(w[1]),
                                   !.target_y = a.pos_y + Cent(w[2])])
    ELSE a

\* "max(-velocidad_frame, min(velocidad_frame, d))"
PasoDe(v, d) == Max(0 - v, Min(v, d))

\* The step towards the target: x when abs(dx) > 0.1, y when abs(dy) > 0.
Avanzar(a, dx, dy) ==
    [a EXCEPT !.pos_x = IF Abs(dx) > 10 THEN a.pos_x + PasoDe(a.velocidad_frame, dx)
                        ELSE a.pos_x,
              !.direccion_h = IF Abs(dx) > 10
                              THEN (IF PasoDe(a.velocidad_frame, dx) > 0 THEN 1 ELSE 0 - 1)
                              ELSE a.direccion_h,
              !.pos_y = IF Abs(dy) > 0 THEN a.pos_y + PasoDe(a.velocidad_frame, dy)
                        ELSE a.pos_y]

AvanzarHacia(a) == Avanzar(a, a.target_x - a.pos_x, a.target_y - a.pos_y)

\* Animal.update_movimiento_frame
update_movimiento_frame(a, w) ==
    LimitarPosicion(AvanzarHacia(Vagar(LimitarObjetivo(a), w)))

\* The speed of a shark that has an estado_tiempo.
VelocidadDeFase(a) ==
    IF a.fase = "" THEN a.velocidad_frame
    ELSE IF a.fase = "noche" THEN Min(200, (a.velocidad_base * 125) \div 100)
    ELSE IF a.fase = "amanecer" THEN Min(200, (a.velocidad_base * 110) \div 100)
    ELSE Max(30, (a.velocidad_base * 90) \div 100)

\* The objects a presa_objetivo can refer to: the fish and the trout of the
\* lists, and the ones kept in retirados.
Presas(e) == Range(e.peces) \cup Range(e.truchas) \cup e.retirados

Viva(e, id) == \E o \in Range(e.peces) \cup Range(e.truchas) : o.id = id

\* "if self.estado == 'cazando' and self.presa_objetivo: ..."
Persigue(e, a) ==
    /\ a.estado = "cazando" /\ a.presa_objetivo # 0
    /\ \E o \in Presas(e) : o.id = a.presa_objetivo

Apuntar(a, presa) ==
    [a EXCEPT !.target_x = Cent(CentroX(presa)), !.target_y = Cent(CentroY(presa))]

\* The homing of Tiburon.update_movimiento_frame.
Homing(e, a) ==
    IF Persigue(e, a)
    THEN Apuntar(a, CHOOSE o \in Presas(e) : o.id = a.presa_objetivo)
    ELSE a

\* Tiburon.update_movimiento_frame
TiburonMovimientoFrame(e, a, w) ==
    update_movimiento_frame(Homing(e, [a EXCEPT !.velocidad_frame = VelocidadDeFase(a)]),
                            w)

MoverLista(lista, w) ==
    SubSeq([k \in 1..Len(lista) |-> update_movimiento_frame(lista[k], w)],
           1, Len(lista))

\* The sharks of the frame, after the fish and the trout have moved.
MoverTiburones(e, w) ==
    [e EXCEPT !.tiburones =
                  SubSeq([k \in 1..Len(e.tiburones) |->
                              TiburonMovimientoFrame(e, e.tiburones[k], w)],
                         1, Len(e.tiburones)),
              !.rastreos =
                  SelectSeq(SubSeq([k \in 1..Len(e.tiburones) |->
                                        [tiburon |-> e.tiburones[k].id,
                                         presa |-> e.tiburones[k].presa_objetivo,
                                         viva |-> Viva(e, e.tiburones[k].presa_objetivo)]],
                                   1, Len(e.tiburones)),
                            LAMBDA x : \E k \in 1..Len(e.tiburones) :
                                          /\ e.tiburones[k].id = x.tiburon
                                          /\ Persigue(e, e.tiburones[k]))]

\* "for animal in self.peces + self.truchas + self.tiburones: ..."
actualizar_movimiento_frame(e, w) ==
    MoverTiburones([e EXCEPT !.peces = MoverLista(e.peces, w),
                             !.truchas = MoverLista(e.truchas, w)], w)

MovimientoFrame ==
    /\ last_call.op \in {"simular_turno_ia", "frame"}
    /\ IF last_call.op = "frame" THEN last_call.cuadros < MaxCuadros ELSE TRUE
    /\ \E w \in Vagabundeos :
          ecosistema' = actualizar_movimiento_frame(ecosistema, w)
    /\ last_call' = [op |-> "frame", n |-> last_call.n,
                     cuadros |-> IF last_call.op = "frame"
                                 THEN last_call.cuadros + 1 ELSE 1]
    /\ UNCHANGED ecoVars
    /\ UNCHANGED ctlVars
    /\ UNCHANGED saveVars

\* A layout with the two sharks apart from every fish and trout: the fish
\* and the trout stand on three points, the sharks (the objects 38 and 39)
\* on two points of their own.
TrazadoCaza ==
    SubSeq([k \in 1..19 |->
                IF k = 19 THEN <<900, 700>>
                ELSE IF k = 1 THEN <<850, 300>>
                ELSE <<<<100, 100>>, <<600, 100>>, <<300, 500>>>>[(k % 3) + 1]],
           1, 19)

\* The turns start before a night and before a dawn.
InitCaza == InitDesde({TrazadoCaza}, {29, 36})

NextCaza == SimularTurno \/ MovimientoFrame

SpecCaza == InitCaza /\ [][NextCaza]_vars

(***************************************************************************)
(* A TimeSystem on its own: update(delta_turns) with deltas down to one    *)
(* unit, and from_dict(to_dict()).  last_call keeps the clock as it was at *)
(* the last mark, the exact sum of the deltas and the number of updates    *)
(* since then, the updates made in all, and whether the clock was          *)
(* rebuilt from its dict.                                                  *)
(***************************************************************************)
MaxClockSteps == 5

ClockDeltas ==
    {1, Turns(1) \div 2, Turns(DAY_CYCLE_TURNS) \div 2, Turns(DAY_CYCLE_TURNS),
     Turns(DAY_CYCLE_TURNS * DAYS_PER_SEASON)}

ClockLog ==
    IF last_call.op = "clock" THEN last_call
    ELSE [op |-> "clock", mark |-> NewTimeSystem, advanced |-> 0, since |-> 0,
          steps |-> 0, reloaded |-> FALSE]

\* What the clock's operations leave alone.
ClockFrame ==
    /\ UNCHANGED <<plants, fish, trout, sharks, events, turn_count, paused,
                   next_entity_id, detached, decisions, eaten>>
    /\ UNCHANGED ctlVars
    /\ UNCHANGED otherVars

ClockUpdate ==
    \E d \in ClockDeltas :
        /\ ClockLog.steps < MaxClockSteps
        /\ time_system' = TimeUpdate(time_system, d)
        /\ last_call' = [ClockLog EXCEPT !.advanced = @ + d, !.since = @ + 1,
                                         !.steps = @ + 1, !.reloaded = FALSE]
        /\ ClockFrame

ClockMark ==
    /\ ClockLog.since > 0
    /\ time_system' = time_system
    /\ last_call' = [ClockLog EXCEPT !.mark = time_system, !.advanced = 0,
                                     !.since = 0, !.reloaded = FALSE]
    /\ ClockFrame

ClockReload ==
    /\ time_system' = TimeFromDict(TimeToDict(time_system))
    /\ last_call' = [ClockLog EXCEPT !.reloaded = TRUE]
    /\ ClockFrame

NextClock == ClockUpdate \/ ClockMark \/ ClockReload

SpecClock == Init /\ [][NextClock]_vars

(***************************************************************************)
(* Properties                                                              *)
(***************************************************************************)
Animals == Range(fish) \cup Range(trout) \cup Range(sharks)

UpdateRan == last_call.op = "update" /\ ~last_call.was_paused

\* C1: after initialize() and any sequence of update() calls, every animal
\* of fish, trout and sharks has 0 <= energy <= max_energy.
C1_EnergyWithinBounds ==
    \A a \in Animals : a.energy >= 0 /\ a.energy <= MaxEnergy(a.kind)

\* An update has just run in which an animal ate and is now at max_energy:
\* the eaten energy would have taken it over the top.
C1_Witness ==
    /\ UpdateRan
    /\ \E a \in Animals :
          /\ a.energy = MaxEnergy(a.kind)
          /\ \E k \in DOMAIN eaten : eaten[k].eater = a.eid

\* C2: no animal that remains in fish, trout or sharks has energy <= 0 or
\* age >= lifespan; an animal that dies during an update is removed by it.
C2_NoDeadAnimalRemains ==
    \A a \in Animals : a.energy > 0 /\ a.age < Lifespan(a.kind)

\* An update has just run in which an animal died: its death event is there.
C2_Witness ==
    /\ UpdateRan
    /\ \E k \in DOMAIN events : events[k].type = "death"

\* C3: within one update() a prey entity is eaten at most once: no two eat
\* events of the update are about the same prey.
C3_NoDoubleConsumption ==
    \A j, k \in DOMAIN eaten : j # k => eaten[j].prey.eid # eaten[k].prey.eid

\* An update has just run in which a prey was eaten where a second predator
\* of the same species overlaps it too.
C3_Witness ==
    /\ UpdateRan
    /\ \E k \in DOMAIN eaten :
          \E b \in Animals :
              /\ PreyKind(b.kind) = eaten[k].prey.kind
              /\ b.eid # eaten[k].eater
              /\ CollideRect(b, eaten[k].prey)

\* C4: at the end of every non-paused update() the count of each of the four
\* species lies within its POPULATION_LIMITS [min, max].
C4_PopulationWithinLimits ==
    UpdateRan =>
        /\ Len(plants) >= POPULATION_LIMITS.plantas.min
        /\ Len(plants) <= POPULATION_LIMITS.plantas.max
        /\ Len(fish) >= POPULATION_LIMITS.peces.min
        /\ Len(fish) <= POPULATION_LIMITS.peces.max
        /\ Len(trout) >= POPULATION_LIMITS.truchas.min
        /\ Len(trout) <= POPULATION_LIMITS.truchas.max
        /\ Len(sharks) >= POPULATION_LIMITS.tiburones.min
        /\ Len(sharks) <= POPULATION_LIMITS.tiburones.max

\* The decisions of the last update that a trout or a shark took while its
\* target_entity was no longer in the owning collection.
StaleDecisions ==
    {k \in DOMAIN decisions :
        /\ decisions[k].kind \in {"Trout", "Shark"}
        /\ decisions[k].pre_target # 0
        /\ ~decisions[k].pre_live}

\* C5: a trout or shark whose target_entity has been removed from its owning
\* collection never takes target_x/target_y from it: it hunts a prey that its
\* scan has just found, or it flees, loiters, wanders or patrols.
C5_StaleTargetIsAbsent ==
    \A k \in StaleDecisions :
        /\ decisions[k].src # decisions[k].pre_target
        /\ decisions[k].post_target # decisions[k].pre_target
              \/ decisions[k].rule \in {"patrol", "none"}
        /\ \/ /\ decisions[k].rule \in {"hunt", "pack"}
              /\ decisions[k].scanned
              /\ decisions[k].found # 0
              /\ decisions[k].src = decisions[k].found
           \/ decisions[k].rule \in {"flee", "loiter", "wander", "patrol", "none"}

\* A trout decided while the fish it was after had been eaten or had died.
C5_Witness ==
    \E k \in StaleDecisions : decisions[k].kind = "Trout"

\* C6: while the simulation runs, the turn counter (and with it every
\* animal's decide_action) advances only in a frame that crosses a turn
\* boundary of TURN_DURATION_MS, not in every frame.
C6_OneUpdatePerTurn ==
    [][(simulation_running /\ ~simulation_paused /\ pc = "update"
        /\ turn_count' = turn_count + 1) => turn_boundary']_vars

\* C7: when paused is true, update() leaves the collections with every
\* entity's fields, the clock, the events, turn_count and the id counter
\* unchanged.
C7_PausedUpdateChangesNothing ==
    [][(last_call'.op = "update" /\ last_call'.was_paused) =>
          UNCHANGED <<plants, fish, trout, sharks, time_system, events,
                      turn_count, next_entity_id, paused>>]_vars

\* update() has just been called on a paused ecosystem that has animals and
\* has run before.
C7_Witness ==
    /\ last_call.op = "update"
    /\ last_call.was_paused
    /\ Animals # {}
    /\ turn_count > 0

\* The entities in the four collections.
Entities == Range(plants) \cup Animals

\* C8: initialize(config) with counts that are not negative leaves exactly
\* the requested number of new plants, fish, trout and sharks and no event,
\* with turn_count 0, a clock at turn 0 and day 1, and paused false, and
\* get_statistics() reports those counts and turn 0.
C8_InitializeResets ==
    (last_call.op = "initialize"
     /\ \A key \in DOMAIN last_call.config : last_call.config[key] >= 0) =>
        /\ Len(plants) = last_call.config.plantas
        /\ Len(fish) = last_call.config.peces
        /\ Len(trout) = last_call.config.truchas
        /\ Len(sharks) = last_call.config.tiburones
        /\ {e.eid : e \in Entities} = 1..(next_entity_id - 1)
        /\ next_entity_id - 1 = Len(plants) + Len(fish) + Len(trout) + Len(sharks)
        /\ \A a \in Animals :
              a.age = 0 /\ a.energy = InitEnergy(a.kind) /\ a.target_entity = 0
        /\ events = <<>>
        /\ turn_count = 0
        /\ time_system.turn = 0
        /\ time_system.day = 1
        /\ paused = FALSE
        /\ get_statistics.plants = last_call.config.plantas
        /\ get_statistics.fish = last_call.config.peces
        /\ get_statistics.trout = last_call.config.truchas
        /\ get_statistics.sharks = last_call.config.tiburones
        /\ get_statistics.turn = 0

\* initialize has just been called on a paused ecosystem that had entities,
\* events and turns behind it, and it has spawned animals.
C8_Witness ==
    /\ last_call.op = "initialize"
    /\ last_call.before.entities > 0
    /\ last_call.before.events > 0
    /\ last_call.before.turn_count > 0
    /\ last_call.before.paused
    /\ Animals # {}
    /\ \A key \in DOMAIN last_call.config : last_call.config[key] >= 0

\* C9: immediately after initialize(config) every species count is within
\* its POPULATION_LIMITS, also when config asks for a count outside them.
C9_InitializeClamps ==
    last_call.op = "initialize" =>
        /\ Len(plants) >= POPULATION_LIMITS.plantas.min
        /\ Len(plants) <= POPULATION_LIMITS.plantas.max
        /\ Len(fish) >= POPULATION_LIMITS.peces.min
        /\ Len(fish) <= POPULATION_LIMITS.peces.max
        /\ Len(trout) >= POPULATION_LIMITS.truchas.min
        /\ Len(trout) <= POPULATION_LIMITS.truchas.max
        /\ Len(sharks) >= POPULATION_LIMITS.tiburones.min
        /\ Len(sharks) <= POPULATION_LIMITS.tiburones.max

\* C10: a shark whose target_entity is a live trout farther away than
\* SHARK_TARGET_PERSISTENCE ends its decide_action with target_entity the
\* nearest trout its scan found, or none when the scan found none.
C10_FarLockDropped ==
    \A k \in DOMAIN decisions :
        (decisions[k].kind = "Shark" /\ decisions[k].pre_far) =>
            decisions[k].post_target = decisions[k].found

\* The decisions of the last update that a shark took while locked onto a
\* trout of ecosystem.trout within SHARK_TARGET_PERSISTENCE.
LockedDecisions ==
    {k \in DOMAIN decisions :
        /\ decisions[k].kind = "Shark"
        /\ decisions[k].pre_target # 0
        /\ decisions[k].pre_live
        /\ ~decisions[k].pre_far}

\* C11: a shark locked onto a trout that is still in ecosystem.trout and
\* within SHARK_TARGET_PERSISTENCE keeps that trout as target_entity, aims
\* at it and does not scan.
C11_LockKept ==
    \A k \in LockedDecisions :
        /\ decisions[k].post_target = decisions[k].pre_target
        /\ decisions[k].src = decisions[k].pre_target
        /\ decisions[k].rule = "hunt"
        /\ ~decisions[k].scanned

\* A shark kept its lock on a trout although another trout of
\* ecosystem.trout was nearer to it inside its hunt radius.
C11_Witness ==
    \E k \in LockedDecisions :
        decisions[k].nearest \notin {0, decisions[k].pre_target}

\* The decisions of the last update in which a trout formed a pack.
PackDecisions ==
    {k \in DOMAIN decisions : decisions[k].rule = "pack"}

\* C12: at the end of the update in which a trout formed a pack around a
\* fish, every trout of the pack that is still in ecosystem.trout has that
\* fish as target_entity (stated for a fish that is still in ecosystem.fish).
C12_PackSharesTarget ==
    \A k \in PackDecisions :
        InList(decisions[k].src, fish) =>
            \A i \in 1..Len(trout) :
                trout[i].eid \in decisions[k].pack =>
                    trout[i].target_entity = decisions[k].src

\* The decisions of the last update of a fish with no predator within its
\* flee radius, energy below 30% of max_energy and a plant within 120 pixels.
HungryFishDecisions ==
    {k \in DOMAIN decisions :
        /\ decisions[k].kind = "Fish"
        /\ ~decisions[k].threat
        /\ decisions[k].hungry
        /\ decisions[k].nearest # 0}

\* The plants of the last update: those in ecosystem.plants and those eaten.
SeenPlants ==
    Range(plants) \cup {eaten[j].prey : j \in DOMAIN eaten}

\* C13: such a fish targets the nearest plant within its eat radius and
\* takes the state 'eating', before schooling and wandering.
C13_HungryFishSeeksPlant ==
    \A k \in HungryFishDecisions :
        /\ decisions[k].rule = "eat"
        /\ decisions[k].st = "eating"
        /\ decisions[k].src = decisions[k].nearest
        /\ decisions[k].post_target = decisions[k].nearest
        /\ \A p \in SeenPlants :
              p.eid = decisions[k].nearest =>
                  decisions[k].tx = p.x /\ decisions[k].ty = p.y

\* A hungry fish went for a plant although it had enough neighbours to
\* school.
C13_Witness ==
    \E k \in HungryFishDecisions :
        /\ decisions[k].school >= FISH_SCHOOL_MIN_NEIGHBORS
        /\ \E p \in SeenPlants : p.eid = decisions[k].nearest

\* C14: one call of _balancear_poblaciones leaves a list that was below its
\* minimum at exactly the minimum, one above its maximum at exactly the
\* maximum, and any other at its length.
C14_BalanceExact ==
    last_call.op = "balancear" =>
        \A k \in DOMAIN last_call.before :
            Len(ecosistema[k]) =
                IF last_call.before[k] < POBLACION_LIMITES[k].min
                THEN POBLACION_LIMITES[k].min
                ELSE IF last_call.before[k] > POBLACION_LIMITES[k].max
                THEN POBLACION_LIMITES[k].max
                ELSE last_call.before[k]

\* A call that found no plant and too many sharks: it left 20 plants.
C14_Witness ==
    /\ last_call.op = "balancear"
    /\ last_call.before.plantas = 0
    /\ Len(ecosistema.plantas) = 20
    /\ last_call.before.tiburones > POBLACION_LIMITES.tiburones.max

\* C15: the derived fields of a TimeSystem are functions of turn alone,
\* after any sequence of updates and after from_dict, and
\* from_dict(to_dict()) reproduces them.
C15_ClockIsFunctionOfTurn ==
    /\ time_system.day = (time_system.turn \div Turns(DAY_CYCLE_TURNS)) + 1
    /\ time_system.day_progress = time_system.turn % Turns(DAY_CYCLE_TURNS)
    /\ time_system.season_index
           = ((time_system.day - 1) \div DAYS_PER_SEASON) % Len(SEASONS_ORDER)
    /\ TimeFromDict(TimeToDict(time_system)) = time_system

\* A clock rebuilt from its dict in its second season, part of the way
\* through a day.
C15_Witness ==
    /\ last_call.op = "clock"
    /\ last_call.reloaded
    /\ time_system.season_index = 1
    /\ time_system.day_progress # 0

\* C16 as stated: whenever the deltas since the mark add up to exactly
\* DAY_CYCLE_TURNS, day is one more than at the mark and day_progress is
\* what it was.
C16_DayCycleExact ==
    (last_call.op = "clock" /\ last_call.advanced = Turns(DAY_CYCLE_TURNS)) =>
        /\ time_system.day = last_call.mark.day + 1
        /\ time_system.day_progress = last_call.mark.day_progress

\* C16 amended: the same, for updates whose float additions were exact.
C16_DayCycleWhenSumsExact ==
    (/\ last_call.op = "clock"
     /\ last_call.advanced = Turns(DAY_CYCLE_TURNS)
     /\ time_system.turn = last_call.mark.turn + last_call.advanced) =>
        /\ time_system.day = last_call.mark.day + 1
        /\ time_system.day_progress = last_call.mark.day_progress
        /\ last_call.mark.turn = 0 =>
               time_system.day = 2 /\ time_system.day_progress = 0

\* One day cycle split over two updates, from a clock part of the way
\* through a day, with exact sums.
C16_Witness ==
    /\ last_call.op = "clock"
    /\ last_call.advanced = Turns(DAY_CYCLE_TURNS)
    /\ last_call.since >= 2
    /\ last_call.mark.day_progress # 0
    /\ time_system.turn = last_call.mark.turn + last_call.advanced


\* The saved records of the animals and the animals that load_from_dict built
\* from them, in the order of the lists.
SavedAnimals == last_call.data.fish \o last_call.data.trout \o last_call.data.sharks

LoadedAnimals == fish \o trout \o sharks

\* C17: after load_from_dict every animal's target_entity is the loaded
\* entity whose id is the saved target_id; it is None when the saved
\* target_id is null or matches no loaded entity, and the load does not fail.
C17_TargetRestoredById ==
    last_call.op = "load_from_dict" =>
        /\ last_call.raised = FALSE
        /\ Len(LoadedAnimals) = Len(SavedAnimals)
        /\ \A k \in 1..Len(SavedAnimals) :
              LET tid == SavedAnimals[k].target_id
                  te == LoadedAnimals[k].target_entity
              IN  /\ LoadedAnimals[k].eid = SavedAnimals[k].id
                  /\ (tid # 0 /\ (\E e \in Entities : e.eid = tid)) => te = tid
                  /\ (tid = 0 \/ ~(\E e \in Entities : e.eid = tid)) => te = 0

\* A load of a save that holds a null target and a target that is not among
\* the loaded entities (an animal that was eaten while it was being hunted).
C17_Witness ==
    /\ last_call.op = "load_from_dict"
    /\ \E k \in 1..Len(SavedAnimals) :
          SavedAnimals[k].target_id = 0 /\ LoadedAnimals[k].target_entity = 0
    /\ \E k \in 1..Len(SavedAnimals) :
          /\ SavedAnimals[k].target_id # 0
          /\ ~(\E e \in Entities : e.eid = SavedAnimals[k].target_id)
          /\ LoadedAnimals[k].target_entity = 0


\* The fields of one entity that a save must keep.
SameEntity(a, b) ==
    /\ a.kind = b.kind /\ a.eid = b.eid
    /\ a.x = b.x /\ a.y = b.y
    /\ a.target_x = b.target_x /\ a.target_y = b.target_y
    /\ a.kind # "Plant" =>
          /\ a.energy = b.energy /\ a.age = b.age
          /\ a.state = b.state /\ a.direction = b.direction

SameList(l, m) == Len(l) = Len(m) /\ \A k \in 1..Len(l) : SameEntity(l[k], m[k])

\* C18: load_from_dict(to_dict()) reproduces the membership of the four
\* collections, every entity's species, id, position, target position,
\* energy, age, state tag and direction, and paused, turn_count, the next-id
\* counter and the clock turn.
C18_RoundTripKeepsState ==
    last_call.op = "load_from_dict" =>
        /\ SameList(plants, last_call.origin.plants)
        /\ SameList(fish, last_call.origin.fish)
        /\ SameList(trout, last_call.origin.trout)
        /\ SameList(sharks, last_call.origin.sharks)
        /\ paused = last_call.origin.paused
        /\ turn_count = last_call.origin.turn_count
        /\ next_entity_id = last_call.origin.next_entity_id
        /\ time_system.turn = last_call.origin.time_system.turn

\* A load of a save taken after updates, with an animal that has aged, lost
\* energy, turned left, left the idle state and is away from its target.
C18_Witness ==
    /\ last_call.op = "load_from_dict"
    /\ last_call.data.paused = paused
    /\ turn_count > 0
    /\ time_system.turn > 0
    /\ next_entity_id > 1
    /\ plants # <<>>
    /\ \E a \in Animals :
          /\ a.age > 0 /\ a.energy < MaxEnergy(a.kind)
          /\ a.direction = -1 /\ a.state # "idle"
          /\ (a.target_x # a.x \/ a.target_y # a.y)


\* The class names that a record's type tag can hold.
KnownTypes == {"Plant", "Fish", "Trout", "Shark"}

\* The records of a saved dict.
SavedRecords ==
    Range(last_call.data.plants) \cup Range(last_call.data.fish)
    \cup Range(last_call.data.trout) \cup Range(last_call.data.sharks)

\* C19: load_from_dict given a record whose type tag is not a known species
\* surfaces a load failure and does not construct an entity from the record.
C19_UnknownTypeRejected ==
    (last_call.op = "load_from_dict"
     /\ \E d \in SavedRecords : d.type \notin KnownTypes) =>
        /\ last_call.raised
        /\ \A d \in SavedRecords :
              d.type \notin KnownTypes => ~(\E e \in Entities : e.eid = d.id)


\* 0 <= x <= GAME_AREA_WIDTH - width and 0 <= y <= SCREEN_HEIGHT - height
InBounds(e) ==
    /\ 0 <= e.x /\ e.x <= Px(GAME_AREA_WIDTH) - Width(e.kind)
    /\ 0 <= e.y /\ e.y <= Px(SCREEN_HEIGHT) - Height(e.kind)

\* C20: after initialize() and any sequence of update() calls every entity of
\* the four lists, offspring and top-up spawns included, is inside the game
\* area.
C20_PositionsInBounds == \A e \in Entities : InBounds(e)

\* After an update: an animal that aged and is on its way to a target, and
\* an offspring of this update (age 0) placed by set_random_position.
C20_Witness ==
    /\ last_call.op = "update"
    /\ turn_count > 0
    /\ \E a \in Animals :
          /\ a.state # "idle" /\ a.age > 0
          /\ (a.x # a.target_x \/ a.y # a.target_y)
    /\ \E b \in Animals : b.age = 0 /\ InBounds(b)


\* The events of one type in the log.
EventsOf(type) == SelectSeq(events, LAMBDA e : e.type = type)

\* C21: at the end of every non-paused update() the event log holds exactly
\* the birth, death and eat events of that update: one birth per offspring
\* of the update, one death per animal that died in it, one eat per prey
\* eaten in it, and nothing of an earlier update.
C21_EventsOfThisUpdateOnly ==
    (last_call.op = "update" /\ ~last_call.was_paused) =>
        /\ Len(EventsOf("birth")) = last_call.births
        /\ Len(EventsOf("death")) = last_call.deaths
        /\ Len(EventsOf("eat")) = Len(eaten)
        /\ Len(events) = last_call.births + last_call.deaths + Len(eaten)

\* A second or later update that logged a birth and an eat event.
C21_Witness ==
    /\ last_call.op = "update" /\ ~last_call.was_paused
    /\ turn_count >= 2
    /\ last_call.births > 0 /\ EventsOf("birth") # <<>>
    /\ eaten # <<>> /\ EventsOf("eat") # <<>>


\* The square of the distance between the entity of the call and o.
QueryDistSq(o) ==
    (o.x - last_call.entity.x) * (o.x - last_call.entity.x)
    + (o.y - last_call.entity.y) * (o.y - last_call.entity.y)

\* C22: get_nearby_entities(entity, radius, list) returns exactly the members
\* of the list other than entity at a distance <= radius, each once, in
\* ascending order of distance.
C22_NearbyExactAndSorted ==
    last_call.op = "get_nearby_entities" =>
        LET res == last_call.result
        IN  /\ Range(res) = {o \in Range(fish) :
                                /\ o # last_call.entity
                                /\ QueryDistSq(o) <= Px(last_call.radius) * Px(last_call.radius)}
            /\ \A i, j \in DOMAIN res : i # j => res[i] # res[j]
            /\ \A i, j \in DOMAIN res : i < j => QueryDistSq(res[i]) <= QueryDistSq(res[j])

\* A call on a member of the list that left out the entity itself and a
\* fish beyond the radius, returned a fish at exactly the radius, and put a
\* later fish of the list before an earlier one.
C22_Witness ==
    /\ last_call.op = "get_nearby_entities"
    /\ last_call.entity \in Range(fish)
    /\ \E o \in Range(fish) : QueryDistSq(o) > Px(last_call.radius) * Px(last_call.radius)
    /\ \E o \in Range(last_call.result) :
          QueryDistSq(o) = Px(last_call.radius) * Px(last_call.radius)
    /\ Len(last_call.result) = 2
    /\ last_call.result[1].eid > last_call.result[2].eid


\* C24: overwrite on an existing save rewrites that save: load(save_id) then
\* returns the new state with meta.save_id = save_id and the save_name the
\* save had before, and the set of saves is the same; on a save_id that does
\* not exist it raises FileNotFoundError and creates no save.
C24_OverwriteSameSave ==
    last_call.op = "overwrite" =>
        IF last_call.save_id \in DOMAIN last_call.before
        THEN /\ last_call.raised = ""
             /\ DOMAIN saves = DOMAIN last_call.before
             /\ LoadFile(saves, last_call.save_id).raised = ""
             /\ LoadFile(saves, last_call.save_id).data.state = last_call.state
             /\ LoadFile(saves, last_call.save_id).data.meta.save_id = last_call.save_id
             /\ LoadFile(saves, last_call.save_id).data.meta.save_name
                    = last_call.before[last_call.save_id].meta.save_name
        ELSE /\ last_call.raised = "FileNotFoundError"
             /\ saves = last_call.before


\* What C23 says of one auto-save: it is written only with auto-save
\* enabled, the simulation running and not paused, a current save, and the
\* reference day at least the interval behind; afterwards the reference day
\* is the current day and, at the end of the frame (pc = "events"), the
\* current save holds the state of that moment.
AutoSaveGuarded ==
    /\ auto_log.enabled /\ auto_log.running /\ ~auto_log.paused
    /\ auto_log.save_id # 0
    /\ auto_log.last # 0
    /\ auto_log.day - auto_log.last >= auto_log.interval
    /\ auto_log.last_after = auto_log.day
    /\ pc = "events" =>
          /\ last_auto_saved_day = auto_log.day
          /\ auto_log.save_id \in DOMAIN saves
          /\ saves[auto_log.save_id].state = BuildState

C25_DecisionsSeeStartPositions ==
    \A k \in 1..Len(decisions) :
        decisions[k].src # 0 => decisions[k].seen = decisions[k].start


\* The place of a phase in update(): the clock, the loop over the animals,
\* the removal of the dead, the extension with the born, the interactions,
\* the balancing.
PhaseRank(ph) ==
    CASE ph = "clock" -> 1 [] ph = "decide" -> 2 [] ph = "deaths" -> 3
      [] ph = "births" -> 4 [] ph = "eat" -> 5 [] ph = "balance" -> 6

PhaseCount(P, ph) == Cardinality({k \in 1..Len(P) : P[k].ph = ph})

(***************************************************************************)
(* C26: a non-paused update runs its phases in the order clock, the        *)
(* update of every animal (then the dead removed and the born added), the  *)
(* interactions, the balancing.  Every animal is updated before the first  *)
(* prey is eaten and under the season of the advanced clock, and the       *)
(* balancing sees the plant list that the eating left.                     *)
(***************************************************************************)
C26_PhasesInOrder ==
    (last_call.op = "update" /\ ~last_call.was_paused) =>
        LET P == last_call.phases
            n == Len(P)
        IN /\ P[1].ph = "clock" /\ PhaseCount(P, "clock") = 1
           /\ P[n].ph = "balance" /\ PhaseCount(P, "balance") = 1
           /\ \A i, j \in 1..n : i < j => PhaseRank(P[i].ph) <= PhaseRank(P[j].ph)
           /\ PhaseCount(P, "decide") = Len(decisions) + last_call.deaths
           /\ PhaseCount(P, "eat") = Len(eaten)
           /\ P[n].n = P[1].n - Cardinality({k \in 1..Len(eaten) :
                                                eaten[k].prey.kind = "Plant"})
           /\ Len(plants) = Min(P[n].n, POPULATION_LIMITS.plantas.max)
           /\ \A a \in Animals :
                  a.age > 0 => a.season_move_mult = SeasonMovement(GetSeason(time_system))

C26_Witness ==
    /\ last_call.op = "update" /\ ~last_call.was_paused
    /\ Len(decisions) >= 2
    /\ last_call.births + last_call.deaths > 0
    /\ Len(eaten) > 0


(***************************************************************************)
(* C27: a fish with a trout or a shark within 150 pixels flees, before     *)
(* anything else, from the nearest of them, trout and sharks together.     *)
(***************************************************************************)
C27_FleesNearestPredator ==
    \A k \in 1..Len(decisions) :
        (decisions[k].kind = "Fish" /\ decisions[k].threat) =>
            /\ decisions[k].rule = "flee" /\ decisions[k].st = "fleeing"
            /\ decisions[k].src \in decisions[k].closest


\* The eater name of the eat event for a prey of the given class.
EaterOf(prey_kind) ==
    CASE prey_kind = "Plant" -> "pez" [] prey_kind = "Fish" -> "trucha"
      [] prey_kind = "Trout" -> "tiburon"

EatEvents == SelectSeq(events, LAMBDA e : e.type = "eat")

(***************************************************************************)
(* C28: in _process_interactions every predator eats at most one prey per  *)
(* update.  It eats the first prey of its scan that overlaps it and yields *)
(* energy; that prey leaves its list, one eat event is appended for it,    *)
(* and the predator looks at no prey after it.                             *)
(***************************************************************************)
C28_OnePreyPerPredator ==
    (last_call.op = "update" /\ ~last_call.was_paused) =>
        LET S == last_call.scans
        IN /\ \A i, j \in DOMAIN eaten : i # j => eaten[i].eater # eaten[j].eater
           /\ \A i, j \in DOMAIN S : i # j => S[i].eater # S[j].eater
           /\ \A k \in DOMAIN S :
                  /\ S[k].at = S[k].first
                  /\ S[k].at # 0 => S[k].looked = S[k].at
           /\ Cardinality({k \in DOMAIN S : S[k].at # 0}) = Len(eaten)
           /\ \A k \in DOMAIN eaten :
                  eaten[k].prey.eid \notin Eids(plants) \cup Eids(fish) \cup Eids(trout)
           /\ Len(EatEvents) = Len(eaten)
           /\ \A k \in DOMAIN eaten :
                  /\ EatEvents[k].eater = EaterOf(eaten[k].prey.kind)
                  /\ EatEvents[k].energy > 0

\* An update has just run in which a predator ate the first of several prey
\* that overlapped it and yielded energy, with prey left in the copy after it.
C28_Witness ==
    /\ last_call.op = "update" /\ ~last_call.was_paused
    /\ \E k \in DOMAIN last_call.scans :
          /\ last_call.scans[k].overlaps >= 2
          /\ last_call.scans[k].at # 0
    /\ \E k \in DOMAIN last_call.scans :
          last_call.scans[k].at = 0 /\ last_call.scans[k].looked > 0


BirthEvents == SelectSeq(events, LAMBDA e : e.type = "birth")

(***************************************************************************)
(* C30: in _update_animals, whenever the can_reproduce() check of a        *)
(* surviving animal is true, reproduce() deducts the cost from the parent, *)
(* one offspring of its species joins the list and one birth event is      *)
(* emitted.                                                                *)
(***************************************************************************)
C30_CheckedParentBreeds ==
    (last_call.op = "update" /\ ~last_call.was_paused) =>
        LET checked == {k \in DOMAIN decisions : decisions[k].checked}
        IN /\ \A k \in checked :
                  decisions[k].bred /\ decisions[k].paid = ReproCost(decisions[k].kind)
           /\ last_call.births = Cardinality(checked)
           /\ Len(BirthEvents) = Cardinality(checked)


(***************************************************************************)
(* C29: in logic.Ecosistema.simular_turno_ia only the animals that         *)
(* survived update_decision_turno reproduce: an animal that is dead in the *)
(* turn (energia <= 0 or edad >= tiempo_vida when update_decision_turno    *)
(* returns) gets no offspring in it.                                       *)
(***************************************************************************)
C29_OnlySurvivorsReproduce ==
    \A k \in DOMAIN ecosistema.partos : ecosistema.partos[k].vivo

(***************************************************************************)
(* C31: an offspring of update() enters its list at the position of its    *)
(* parent, the position of its birth event.  last_call.born holds the      *)
(* offspring of the update as new_fish, new_trout and new_sharks were when *)
(* the lists were extended, in the order of the birth events.              *)
(***************************************************************************)
C31_OffspringAtParent ==
    (last_call.op = "update" /\ ~last_call.was_paused) =>
        /\ Len(last_call.born) = Len(BirthEvents)
        /\ \A k \in 1..Len(last_call.born) :
               <<last_call.born[k].x, last_call.born[k].y>> = BirthEvents[k].position

(***************************************************************************)
(* C32: at the end of every non-paused update() the target of every animal *)
(* of the three lists lies in [0, GAME_AREA_WIDTH - width] x               *)
(* [0, SCREEN_HEIGHT - height].                                            *)
(***************************************************************************)
C32_TargetsInBounds ==
    (last_call.op = "update" /\ ~last_call.was_paused) =>
        \A a \in Animals :
            /\ 0 <= a.target_x /\ a.target_x <= Px(GAME_AREA_WIDTH) - Width(a.kind)
            /\ 0 <= a.target_y /\ a.target_y <= Px(SCREEN_HEIGHT) - Height(a.kind)

(***************************************************************************)
(* C33: in logic.py a frame takes the target of a shark only from a prey   *)
(* that is in the lists of the trout and the fish: after a turn has marked *)
(* the presa_objetivo of a shark dead and removed it, no frame homes on it.*)
(***************************************************************************)
C33_HomingOnLivePrey ==
    \A k \in 1..Len(ecosistema.rastreos) : ecosistema.rastreos[k].viva

(***************************************************************************)
(* C34: in every state of GameController, from its construction on, the    *)
(* ecosystem is paused whenever the simulation is not running or is        *)
(* paused.  (Where it fails, a frame of the stopped controller advances    *)
(* turn_count and the clock.)                                              *)
(***************************************************************************)
C34_PausedUnlessRunning ==
    (~simulation_running \/ simulation_paused) => paused

(***************************************************************************)
(* C35: GameController.update hands every ecosystem event to the view in   *)
(* at most one frame.  A frame hands over ecosystem.events as its          *)
(* Ecosystem.update left it;  the events of a frame whose update ran were  *)
(* handed over in that frame, so a frame whose update was skipped must     *)
(* hand over nothing.                                                      *)
(***************************************************************************)
C35_EventsDeliveredOnce ==
    (pc = "events" /\ last_call.op = "update" /\ last_call.was_paused) =>
        events = <<>>

(***************************************************************************)
(* C36: after any sequence of initialize(), update() and                   *)
(* load_from_dict(to_dict()) the entities in plants, fish, trout and       *)
(* sharks have positive ids that differ pairwise, and _next_entity_id is   *)
(* greater than each of them, so the next _assign_id gives an id that no   *)
(* live entity has.                                                        *)
(***************************************************************************)
LiveIds == plants \o fish \o trout \o sharks

C36_LiveIdsDistinct ==
    /\ \A i \in 1..Len(LiveIds) :
          /\ LiveIds[i].eid > 0
          /\ LiveIds[i].eid < next_entity_id
    /\ \A i, j \in 1..Len(LiveIds) :
          i # j => LiveIds[i].eid # LiveIds[j].eid

\* A round trip of an ecosystem in which an offspring has been given an id
\* past those of initialize and an entity with a smaller id has been removed.
C36_Witness ==
    /\ last_call.op = "load_from_dict"
    /\ \A rec \in SavedRecords : rec.type \in KnownTypes
    /\ turn_count > 0
    /\ \E i \in 1..Len(LiveIds) :
          /\ LiveIds[i].kind # "Plant"
          /\ LiveIds[i].age = 0
          /\ LiveIds[i].eid = next_entity_id - 1
    /\ \E n \in 1..(next_entity_id - 1) :
          \A i \in 1..Len(LiveIds) : LiveIds[i].eid # n

(***************************************************************************)
(* C37: the season_progress of get_statistics follows the season it        *)
(* reports: it is 0 exactly on the first day of a season (day 1, and each  *)
(* day whose season_index differs from that of the day before), and of two *)
(* days of one season the later one reports the greater season_progress.   *)
(***************************************************************************)
SeasonOfDay(day) == ((day - 1) \div DAYS_PER_SEASON) % Len(SEASONS_ORDER)

FirstDayOfSeason(ts) ==
    ts.day = 1 \/ SeasonOfDay(ts.day - 1) # ts.season_index

SameSeason(ts, us) ==
    (ts.day - 1) \div DAYS_PER_SEASON = (us.day - 1) \div DAYS_PER_SEASON

C37_SeasonProgressFollowsSeason ==
    /\ FirstDayOfSeason(time_system) <=> get_statistics.season_progress = 0
    /\ (last_call.op = "clock"
        /\ SameSeason(last_call.mark, time_system)
        /\ last_call.mark.day < time_system.day) =>
           SeasonProgress(last_call.mark) < get_statistics.season_progress

(***************************************************************************)
(* C38: SaveManager.save always creates a new save: the save_id it returns *)
(* is the id of no save that existed before the call, and load gives for   *)
(* every save that existed before the call what it gave before.            *)
(***************************************************************************)
C38_SaveCreatesNew ==
    last_call.op = "save" =>
        /\ last_call.returned \notin DOMAIN last_call.before
        /\ \A save_id \in DOMAIN last_call.before :
              LoadFile(saves, save_id) = LoadFile(last_call.before, save_id)


====
